---- MODULE Spec2Model ----
(***************************************************************************)
(* cli-bridge MCP server: the Command Channel (sendCommand), the config    *)
(* lookup it rests on (loadConfig / getServer), the input validators and   *)
(* the tool handlers that build command lines.                             *)
(*                                                                         *)
(* Text is a sequence of one-character strings; a multi-character string   *)
(* inside such a sequence is a fixed literal of the program (a verb, a     *)
(* message template part), never caller-controlled text.                   *)
(***************************************************************************)
EXTENDS Integers, Sequences, FiniteSets, TLC

VARIABLES
  env,           \* process environment: config files and VWCLI_* variables
  cachedConfig,  \* module-level `let cachedConfig`
  call,          \* per sendCommand invocation: promise, socket, buffers
  inv,           \* per tool invocation: arguments and returned result
  reads,         \* (history) loadConfig calls that went to the configuration
                 \* sources since the cache was last cleared
  probe          \* the last direct call of an exported function and its result

vars == <<env, cachedConfig, call, inv, reads, probe>>

(***************************************************************************)
(* Bounds of the model                                                     *)
(***************************************************************************)
TimeoutTicks == 2     \* clock ticks of inactivity that make up TIMEOUT ms
MaxChunk == 2         \* bytes the peer puts into one data event
MaxResp == 8          \* characters of `response` the model keeps literally
MaxReads == 2         \* `reads` stops counting here
MaxText == 3          \* validators are given every text up to this length

Calls == {1}

(***************************************************************************)
(* Program constants                                                       *)
(***************************************************************************)
TIMEOUT == 30000
MAX_INPUT_LENGTH == 1000
MAX_SOURCE_LENGTH == 100000
MAX_SERVER_NAME_LENGTH == 100

(***************************************************************************)
(* JavaScript values: one record shape for every value the code handles.   *)
(***************************************************************************)
JStr(s) == [t |-> "string", s |-> s, n |-> 0]
JNum(n) == [t |-> "number", s |-> <<>>, n |-> n]
JNaN == [t |-> "NaN", s |-> <<>>, n |-> 0]
\* the non-integer number n + 0.5, and Infinity
JHalf(n) == [t |-> "number", s |-> <<".5">>, n |-> n]
JInfinity == [t |-> "number", s |-> <<"Infinity">>, n |-> 0]
JUndef == [t |-> "undefined", s |-> <<>>, n |-> 0]
JNull == [t |-> "null", s |-> <<>>, n |-> 0]

\* ToBoolean, as used by `a || b`, `x ? y : z` and `if (x)`
Truthy(v) ==
  CASE v.t = "string" -> v.s # <<>>
    [] v.t = "number" -> v.n # 0 \/ v.s # <<>>
    [] OTHER -> FALSE

\* a || b
Or(a, b) == IF Truthy(a) THEN a ELSE b

\* String(v), as a template literal `${v}` converts
ToStr(v) ==
  CASE v.t = "string" -> v.s
    [] v.t = "number" -> IF v.s = <<"Infinity">> THEN v.s ELSE <<ToString(v.n)>> \o v.s
    [] v.t = "NaN" -> <<"NaN">>
    [] v.t = "null" -> <<"null">>
    [] OTHER -> <<"undefined">>

RECURSIVE Join(_, _)
\* Array.prototype.join over an array of strings
Join(parts, sep) ==
  IF parts = <<>> THEN <<>>
  ELSE IF Len(parts) = 1 THEN parts[1]
  ELSE parts[1] \o sep \o Join(Tail(parts), sep)

Digits == {"0", "1", "2", "3", "4", "5", "6", "7", "8", "9"}

DigitVal(ch) ==
  CASE ch = "0" -> 0 [] ch = "1" -> 1 [] ch = "2" -> 2 [] ch = "3" -> 3
    [] ch = "4" -> 4 [] ch = "5" -> 5 [] ch = "6" -> 6 [] ch = "7" -> 7
    [] ch = "8" -> 8 [] OTHER -> 9

RECURSIVE LeadingDigits(_)
LeadingDigits(s) ==
  IF s = <<>> \/ s[1] \notin Digits THEN <<>>
  ELSE <<s[1]>> \o LeadingDigits(Tail(s))

RECURSIVE DecimalValue(_)
DecimalValue(ds) ==
  IF ds = <<>> THEN 0
  ELSE 10 * DecimalValue(SubSeq(ds, 1, Len(ds) - 1)) + DigitVal(ds[Len(ds)])

\* the text without its leading blanks
SkipBlanks(s) ==
  LET Blank(i) == s[i] \in {" ", "\t", "\n", "\r"}
  IN  IF \A i \in 1..Len(s) : Blank(i) THEN <<>>
      ELSE SubSeq(s, CHOOSE i \in 1..Len(s) : ~Blank(i) /\ \A j \in 1..(i - 1) : Blank(j),
                  Len(s))

\* parseInt(text, 10): leading blanks skipped, optional sign, then the longest
\* run of leading digits; NaN when there is none
ParseInt(text) ==
  LET s == SkipBlanks(text)
      neg == s # <<>> /\ s[1] = "-"
      body == IF s # <<>> /\ s[1] \in {"-", "+"} THEN Tail(s) ELSE s
      ds == LeadingDigits(body)
  IN  IF ds = <<>> THEN JNaN
      ELSE JNum(IF neg THEN 0 - DecimalValue(ds) ELSE DecimalValue(ds))

(***************************************************************************)
(* Configuration: loadConfig and getServer                                 *)
(***************************************************************************)
\* One entry of config.servers: its key and the descriptor's own properties
\* (an absent property reads as undefined).
Entry(key, host, port, apiKey, nameProp) ==
  [key |-> key, host |-> host, port |-> port, apiKey |-> apiKey, nameProp |-> nameProp]

\* A parsed config file / the cached config. t = "null" is the JS null
\* (the initial cache, or a file whose JSON text is `null`).
Config(servers, default) == [t |-> "object", servers |-> servers, default |-> default]
NullConfig == [t |-> "null", servers |-> <<>>, default |-> JUndef]

Descriptor(name, host, port, apiKey) ==
  [name |-> name, host |-> host, port |-> port, apiKey |-> apiKey]
NoServer == Descriptor(JUndef, JUndef, JUndef, JUndef)

\* Server names used by the model
Dev == <<"d", "e", "v">>
Prod == <<"p", "r", "o", "d">>
Staging == <<"s", "t", "a", "g", "i", "n", "g">>
Ctor == <<"c", "o", "n", "s", "t", "r", "u", "c", "t", "o", "r">>
DefaultName == <<"d", "e", "f", "a", "u", "l", "t">>

\* config.servers is a plain object made by JSON.parse: besides its own keys
\* a property read finds what Object.prototype defines (constructor, toString,
\* valueOf, ...); the model keeps one of these names.
ObjectPrototypeKeys == {Ctor}

OwnKeys(servers) == [i \in 1..Len(servers) |-> servers[i].key]

HasOwn(servers, key) == \E i \in 1..Len(servers) : servers[i].key = key

OwnEntry(servers, key) ==
  servers[CHOOSE i \in 1..Len(servers) : servers[i].key = key]

\* fs.existsSync / fs.readFileSync / JSON.parse on one path of CONFIG_PATHS
File(st, cfg) == [st |-> st, cfg |-> cfg]
AbsentFile == File("absent", NullConfig)
BadFile == File("bad", NullConfig)     \* exists; reading or parsing it throws

RECURSIVE FirstExisting(_)
\* a loop that stops at the first path that exists, parsed or not
FirstExisting(files) ==
  IF files = <<>> THEN 0
  ELSE IF files[1].st # "absent" THEN 1
  ELSE LET r == FirstExisting(Tail(files)) IN IF r = 0 THEN 0 ELSE r + 1

RECURSIVE FirstLoadable(_)
\* the `for (const configPath of CONFIG_PATHS)` loop: index of the first path
\* that exists and parses, 0 when the loop falls through
FirstLoadable(files) ==
  IF files = <<>> THEN 0
  ELSE IF files[1].st = "ok" THEN 1
  ELSE LET r == FirstLoadable(Tail(files)) IN IF r = 0 THEN 0 ELSE r + 1

\* the legacy single-server fallback built from VWCLI_*
LegacyConfig(e) ==
  Config(
    << Entry(DefaultName,
             Or(e.VWCLI_HOST, JStr(<<"localhost">>)),
             ParseInt(ToStr(Or(e.VWCLI_PORT, JStr(<<"9", "9", "9", "9">>)))),
             Or(e.VWCLI_API_KEY, JUndef),
             JUndef) >>,
    JStr(DefaultName))

\* the value of `reads` after a loadConfig() call found `cache`
ReadsAfter(cache, n) ==
  IF cache.t # "null" THEN n
  ELSE IF n < MaxReads THEN n + 1 ELSE MaxReads

\* loadConfig(): the config returned and the cache afterwards
LoadConfig(cache, e) ==
  IF cache.t # "null" THEN cache
  ELSE LET i == FirstLoadable(e.files)
       IN  IF i # 0 THEN e.files[i].cfg ELSE LegacyConfig(e)

\* a getServer that ignores the requested name and takes the first server
GetServerFirst(config, name) ==
  IF config.t = "null" \/ config.servers = <<>>
  THEN [threw |-> TRUE, message |-> <<"no server">>, server |-> NoServer]
  ELSE [threw |-> FALSE, message |-> <<>>,
        server |-> Descriptor(JStr(config.servers[1].key), config.servers[1].host,
                              config.servers[1].port, config.servers[1].apiKey)]

\* getServer(name): [threw, message, server]
GetServer(config, name) ==
  IF config.t = "null"
  THEN [threw |-> TRUE,
        message |-> <<"Cannot read properties of null (reading 'default')">>,
        server |-> NoServer]
  ELSE
    LET firstKey == IF config.servers = <<>> THEN JUndef
                    ELSE JStr(config.servers[1].key)
        serverName == Or(name, Or(config.default, firstKey))
        key == ToStr(serverName)
    IN  IF HasOwn(config.servers, key)
        THEN LET s == OwnEntry(config.servers, key)
             IN  [threw |-> FALSE, message |-> <<>>,
                  \* { name: serverName, ...server }: an own `name` wins
                  server |-> Descriptor(
                    IF s.nameProp.t = "undefined" THEN serverName ELSE s.nameProp,
                    s.host, s.port, s.apiKey)]
        ELSE IF key \in ObjectPrototypeKeys
        THEN \* an inherited function: truthy, no own enumerable properties
             [threw |-> FALSE, message |-> <<>>,
              server |-> Descriptor(serverName, JUndef, JUndef, JUndef)]
        ELSE [threw |-> TRUE,
              message |-> <<"Unknown server: ">> \o key \o <<". Available: ">>
                          \o Join(OwnKeys(config.servers), <<", ">>),
              server |-> NoServer]

(***************************************************************************)
(* Response bytes, decoding and parsing                                    *)
(*                                                                         *)
(* The response alphabet is a small JSON dialect, one symbol per token:    *)
(*   "{" "}"      object delimiters                                        *)
(*   "o" "e"      the member "status":"ok" / "status":"error"              *)
(*   "m"          the member "message":"m"                                 *)
(*   "R" "F" "X"  the member "code":"AUTH_REQUIRED" / "AUTH_FAILED" /      *)
(*                another code                                             *)
(*   "x", E_ACUTE one character of the "data" string                       *)
(*   "7"          a digit of a number literal, "n" the literal null,       *)
(*   "q"          a string literal                                         *)
(* On the wire every symbol is one byte, except E_ACUTE, which is the two  *)
(* bytes 0xC3 0xA9.                                                        *)
(***************************************************************************)
E_ACUTE == "e-acute"
REPLACEMENT == "U+FFFD"
ByteC3 == "0xC3"
ByteA9 == "0xA9"

RECURSIVE Utf8Decode(_)
\* Buffer.prototype.toString(): UTF-8 decoding of ONE chunk; a lead byte
\* without its continuation, and a continuation byte without its lead, each
\* decode to U+FFFD
Utf8Decode(bytes) ==
  IF bytes = <<>> THEN <<>>
  ELSE IF bytes[1] = ByteC3
  THEN IF Len(bytes) >= 2 /\ bytes[2] = ByteA9
       THEN <<E_ACUTE>> \o Utf8Decode(SubSeq(bytes, 3, Len(bytes)))
       ELSE <<REPLACEMENT>> \o Utf8Decode(Tail(bytes))
  ELSE IF bytes[1] = ByteA9
  THEN <<REPLACEMENT>> \o Utf8Decode(Tail(bytes))
  ELSE <<bytes[1]>> \o Utf8Decode(Tail(bytes))

WhiteSpace == {" ", "\n", "\t", "\r"}

RECURSIVE TrimStart(_)
TrimStart(s) ==
  IF s # <<>> /\ s[1] \in WhiteSpace THEN TrimStart(Tail(s)) ELSE s

RECURSIVE TrimEnd(_)
TrimEnd(s) ==
  IF s # <<>> /\ s[Len(s)] \in WhiteSpace
  THEN TrimEnd(SubSeq(s, 1, Len(s) - 1)) ELSE s

\* String.prototype.trim()
Trim(s) == TrimEnd(TrimStart(s))

RECURSIVE FirstLine(_)
\* s.split('\n')[0]
FirstLine(s) ==
  IF s = <<>> \/ s[1] = "\n" THEN <<>>
  ELSE <<s[1]>> \o FirstLine(Tail(s))

MemberSymbols == {"o", "e", "m", "R", "F", "X", "x", E_ACUTE, REPLACEMENT}
DataChars == {"x", E_ACUTE, REPLACEMENT}

\* A JSON value / a Response Envelope. Absent members read as "" or <<>>.
Value(t, status, code, message, data) ==
  [t |-> t, status |-> status, code |-> code, message |-> message, data |-> data]
NoValue == Value("none", "", "", <<>>, <<>>)
ErrorEnvelope(message) == Value("object", "error", "", message, <<>>)

LastOf(body, syms, default) ==
  IF \E i \in 1..Len(body) : body[i] \in syms
  THEN body[CHOOSE i \in 1..Len(body) :
              body[i] \in syms /\ \A j \in (i + 1)..Len(body) : body[j] \notin syms]
  ELSE default

StatusOf(sym) == CASE sym = "o" -> "ok" [] sym = "e" -> "error" [] OTHER -> ""
CodeOf(sym) ==
  CASE sym = "R" -> "AUTH_REQUIRED" [] sym = "F" -> "AUTH_FAILED"
    [] sym = "X" -> "OTHER_CODE" [] OTHER -> ""

IsData(ch) == ch \in DataChars

\* JSON.parse(text): [ok, value, error]
JSONParse(text) ==
  LET t == Trim(text)
      body == SubSeq(t, 2, Len(t) - 1)
  IN  IF t = <<>>
      THEN [ok |-> FALSE, value |-> NoValue, error |-> <<"Unexpected end of JSON input">>]
      ELSE IF \A i \in 1..Len(t) : t[i] = "7"
      THEN [ok |-> TRUE, value |-> Value("number", "", "", <<>>, <<>>), error |-> <<>>]
      ELSE IF t = <<"n">>
      THEN [ok |-> TRUE, value |-> Value("null", "", "", <<>>, <<>>), error |-> <<>>]
      ELSE IF t = <<"q">>
      THEN [ok |-> TRUE, value |-> Value("string", "", "", <<>>, <<>>), error |-> <<>>]
      ELSE IF /\ Len(t) >= 2 /\ t[1] = "{" /\ t[Len(t)] = "}"
              /\ \A i \in 1..Len(body) : body[i] \in MemberSymbols \cup WhiteSpace
      THEN [ok |-> TRUE,
            value |-> Value("object",
                            StatusOf(LastOf(body, {"o", "e"}, "")),
                            CodeOf(LastOf(body, {"R", "F", "X"}, "")),
                            IF \E i \in 1..Len(body) : body[i] = "m" THEN <<"m">> ELSE <<>>,
                            SelectSeq(body, IsData)),
            error |-> <<>>]
      ELSE IF t[1] = "{" /\ \A i \in 2..Len(t) : t[i] \in MemberSymbols \cup WhiteSpace
      THEN [ok |-> FALSE, value |-> NoValue, error |-> <<"Unexpected end of JSON input">>]
      ELSE [ok |-> FALSE, value |-> NoValue, error |-> <<"Unexpected token">>]

(***************************************************************************)
(* sendCommand: the promise, the socket and its five event handlers        *)
(***************************************************************************)
\* One sendCommand invocation.
\*   pc        promise state: "idle" (not called), "pending", "fulfilled", "rejected"
\*   sock      the socket as Node sees it: "none", "created" (no connection
\*             attempt under way), "connecting", "open", "ended" (peer's FIN
\*             read, not yet closed), "destroyed"
\*   log       every method call made on the socket, in order
\*   response  the `response` string of the closure
\*   rx        (history) the bytes the peer has delivered, concatenated
\*   events    (history) the connect, end, error and timeout events
\*             delivered, each with err.code (of an error) and the value its
\*             handler passed to resolve
\*   idle      clock ticks since the socket's last activity
IdleCall ==
  [pc |-> "idle", command |-> <<>>, imageName |-> JUndef, server |-> NoServer,
   value |-> NoValue, sock |-> "none", log |-> <<>>, response |-> <<>>,
   rx |-> <<>>, events |-> <<>>, idle |-> 0]

SockCall(s, op, arg) == [s EXCEPT !.log = Append(@, [op |-> op, arg |-> arg])]

\* socket.destroy(): the socket is closed at once and emits nothing further
SocketDestroy(s) == [SockCall(s, "destroy", <<>>) EXCEPT !.sock = "destroyed"]

\* resolve(v) of `new Promise((resolve, _reject) => ...)`: settles a pending
\* promise, and does nothing to a settled one
Resolve(s, v) ==
  IF s.pc = "pending" THEN [s EXCEPT !.pc = "fulfilled", !.value = v] ELSE s

\* net.Socket.connect(port, host) checks the port before any I/O and throws
\* (ERR_MISSING_ARGS, ERR_INVALID_ARG_TYPE, ERR_SOCKET_BAD_PORT) unless it is
\* a number or numeric string in 0..65535
ConnectThrows(port) ==
  CASE port.t = "number" -> port.n \notin 0..65535
    [] port.t = "string" ->
         \/ port.s = <<>>
         \/ \E i \in 1..Len(port.s) : port.s[i] \notin Digits
         \/ DecimalValue(port.s) \notin 0..65535
    [] OTHER -> TRUE

\* the line written on connect: prefix + command + '\n'
\* a connect handler that never authenticates
CommandLineNoAuth(server, command) == command \o <<"\n">>

CommandLine(server, command) ==
  LET prefix == IF Truthy(server.apiKey)
                THEN <<"AUTH:">> \o ToStr(server.apiKey) \o <<" ">>
                ELSE <<>>
  IN  prefix \o command \o <<"\n">>

\* a connect handler that half-closes before it writes
OnConnectEndFirst(s) ==
  SockCall(SockCall(s, "end", <<>>), "write", CommandLine(s.server, s.command))

\* a connect handler that writes and leaves the write side open
OnConnectNoEnd(s) == SockCall(s, "write", CommandLine(s.server, s.command))

\* socket.on('connect', ...)
OnConnect(s) ==
  SockCall(SockCall(s, "write", CommandLine(s.server, s.command)), "end", <<>>)

\* socket.on('data', ...)
OnData(s, chunk) == [s EXCEPT !.response = @ \o Utf8Decode(chunk)]

\* the rewriting of authentication errors and the null case, shared by the
\* variants of the end handler below
Rewritten(result, server) ==
  IF result.t = "null"
  THEN ErrorEnvelope(<<"Invalid JSON response: ",
                       "Cannot read properties of null (reading 'status')">>)
  ELSE IF result.status = "error" /\ result.code = "AUTH_REQUIRED"
  THEN ErrorEnvelope(<<"Authentication required for '">> \o ToStr(server.name)
                     \o <<"'. Add apiKey to your config.">>)
  ELSE IF result.status = "error" /\ result.code = "AUTH_FAILED"
  THEN ErrorEnvelope(<<"Invalid API key for '">> \o ToStr(server.name)
                     \o <<"'. Check your configuration.">>)
  ELSE result

\* an end handler that parses the whole buffer instead of its first line
EndResultWholeBuffer(response, server) ==
  LET parsed == JSONParse(Trim(response))
  IN  IF ~parsed.ok
      THEN ErrorEnvelope(<<"Invalid JSON response: ">> \o parsed.error)
      ELSE Rewritten(parsed.value, server)

\* an end handler whose catch passes the parser's message on as it is
EndResultRawError(response, server) ==
  LET parsed == JSONParse(FirstLine(Trim(response)))
  IN  IF ~parsed.ok THEN ErrorEnvelope(parsed.error)
      ELSE Rewritten(parsed.value, server)

\* an end handler that passes every parsed envelope through
EndResultNoRewrite(response, server) ==
  LET parsed == JSONParse(FirstLine(Trim(response)))
  IN  IF ~parsed.ok
      THEN ErrorEnvelope(<<"Invalid JSON response: ">> \o parsed.error)
      ELSE IF parsed.value.t = "null"
      THEN Rewritten(parsed.value, server)
      ELSE parsed.value

\* what the 'end' handler passes to resolve
EndResult(response, server) ==
  LET lines0 == FirstLine(Trim(response))
      parsed == JSONParse(lines0)
      result == parsed.value
  IN  IF ~parsed.ok
      THEN ErrorEnvelope(<<"Invalid JSON response: ">> \o parsed.error)
      ELSE IF result.t = "null"
      THEN \* result.status on null throws a TypeError inside the try
           ErrorEnvelope(<<"Invalid JSON response: ",
                           "Cannot read properties of null (reading 'status')">>)
      ELSE IF result.status = "error" /\ result.code = "AUTH_REQUIRED"
      THEN ErrorEnvelope(<<"Authentication required for '">> \o ToStr(server.name)
                         \o <<"'. Add apiKey to your config.">>)
      ELSE IF result.status = "error" /\ result.code = "AUTH_FAILED"
      THEN ErrorEnvelope(<<"Invalid API key for '">> \o ToStr(server.name)
                         \o <<"'. Check your configuration.">>)
      ELSE result

\* socket.on('end', ...)
OnEnd(s) == Resolve(s, EndResult(s.response, s.server))

TimeoutResult(server) ==
  ErrorEnvelope(<<"Connection timed out to ">> \o ToStr(server.host)
                \o <<":">> \o ToStr(server.port))

\* a timeout handler that resolves and leaves the socket alone
OnTimeoutNoDestroy(s) == Resolve(s, TimeoutResult(s.server))

\* socket.on('timeout', ...)
OnTimeout(s) == Resolve(SocketDestroy(s), TimeoutResult(s.server))

\* err.message of the error Node emits for a failure code
ErrMessage(code) == <<"net: ", code>>

\* an error handler without the special case for a refused connection
ErrorResultGeneric(server, code) == ErrorEnvelope(<<"Connection error: ">> \o ErrMessage(code))

ErrorResult(server, code) ==
  IF code = "ECONNREFUSED"
  THEN ErrorEnvelope(<<"Connection refused to ">> \o ToStr(server.name) \o <<" (">>
                     \o ToStr(server.host) \o <<":">> \o ToStr(server.port)
                     \o <<"). Is CliBridge running?">>)
  ELSE ErrorEnvelope(<<"Connection error: ">> \o ErrMessage(code))

\* an error handler that tries the connection once more before it resolves
OnErrorRetry(s, code) ==
  Resolve(SockCall(s, "connect", ToStr(s.server.port) \o ToStr(s.server.host)),
          ErrorResult(s.server, code))

\* socket.on('error', ...)
OnError(s, code) == Resolve(s, ErrorResult(s.server, code))

Handlers == <<"connect", "data", "end", "timeout", "error">>

RECURSIVE Register(_, _)
\* the five socket.on(...) calls, in source order
Register(s, evs) ==
  IF evs = <<>> THEN s
  ELSE Register(SockCall(s, "on", <<evs[1]>>), Tail(evs))

\* an executor that arms the timeout only once the connection attempt has started
SendCommandLateTimer(s, config, command, imageName) ==
  LET g == GetServer(config, imageName)
      s0 == [s EXCEPT !.pc = "pending", !.command = command, !.imageName = imageName]
  IN  IF g.threw
      THEN Resolve(s0, ErrorEnvelope(g.message))
      ELSE
        LET s1 == [SockCall(s0, "new Socket", <<>>) EXCEPT !.server = g.server,
                                                           !.sock = "created"]
            s3 == Register(s1, Handlers)
            s4 == SockCall(s3, "connect", ToStr(g.server.port) \o ToStr(g.server.host))
        IN  IF ConnectThrows(g.server.port)
            THEN [s4 EXCEPT !.pc = "rejected"]
            ELSE [SockCall(s4, "setTimeout", <<ToString(TIMEOUT)>>)
                    EXCEPT !.sock = "connecting"]

\* the executor of sendCommand's promise, given the config getServer loaded
SendCommand(s, config, command, imageName) ==
  LET g == GetServer(config, imageName)
      s0 == [s EXCEPT !.pc = "pending", !.command = command, !.imageName = imageName]
  IN  IF g.threw
      THEN Resolve(s0, ErrorEnvelope(g.message))
      ELSE
        LET s1 == [SockCall(s0, "new Socket", <<>>) EXCEPT !.server = g.server,
                                                           !.sock = "created"]
            s2 == SockCall(s1, "setTimeout", <<ToString(TIMEOUT)>>)
            s3 == Register(s2, Handlers)
            s4 == SockCall(s3, "connect", ToStr(g.server.port) \o ToStr(g.server.host))
        IN  IF ConnectThrows(g.server.port)
            THEN \* the throw leaves the executor: the promise is rejected
                 [s4 EXCEPT !.pc = "rejected"]
            ELSE [s4 EXCEPT !.sock = "connecting"]

(***************************************************************************)
(* Input validation (lib/validation.js)                                    *)
(***************************************************************************)
Lower == {"a", "b", "c", "d", "e", "f", "g", "h", "i", "j", "k", "l", "m",
          "n", "o", "p", "q", "r", "s", "t", "u", "v", "w", "x", "y", "z"}
Upper == {"A", "B", "C", "D", "E", "F", "G", "H", "I", "J", "K", "L", "M",
          "N", "O", "P", "Q", "R", "S", "T", "U", "V", "W", "X", "Y", "Z"}
Letters == Lower \cup Upper
AlphaNum == Letters \cup Digits

\* control characters without a TLA+ escape are written as named symbols,
\* each one character of the text
NUL == "<NUL>"
VT == "<VT>"
ESC == "<ESC>"
DEL == "<DEL>"
BACKTICK == "<BACKTICK>"

\* [\x00-\x1f\x7f]
ControlChars == {NUL, "\t", "\n", VT, "\f", "\r", ESC, DEL}

\* a character class that lets the braces through
DangerousWithoutBraces == ControlChars \cup {BACKTICK, "$"}

\* DANGEROUS_CHARS: [\x00-\x1f\x7f], the backtick, $, { and }
DANGEROUS_CHARS == ControlChars \cup {BACKTICK, "$", "{", "}"}

\* /[\x00-\x08\x0b\x0c\x0e-\x1f\x7f]/ of validateExpression: the control
\* characters except \x09 (tab), \x0a (newline) and \x0d (carriage return)
EXPRESSION_CONTROL_CHARS == ControlChars \ {"\t", "\n", "\r"}

BinaryChars == {"+", "-", "*", "/", "\\", "~", "<", ">", "=", "@", "%", "|", "&", "?", "!", ","}

Test(charset, s) == \E i \in 1..Len(s) : s[i] \in charset

\* an identifier pattern that lets a trailing dot through
IdentifierTrailingDot(s) ==
  /\ s # <<>>
  /\ \A i \in 1..Len(s) : s[i] \in AlphaNum \cup {"."}
  /\ s[1] \in Letters
  /\ \A i \in 1..(Len(s) - 1) : s[i] = "." => s[i + 1] \in Letters

\* /^[A-Za-z][A-Za-z0-9]*(\.[A-Za-z][A-Za-z0-9]*)*$/
IDENTIFIER_PATTERN(s) ==
  /\ s # <<>>
  /\ \A i \in 1..Len(s) : s[i] \in AlphaNum \cup {"."}
  /\ s[1] \in Letters
  /\ s[Len(s)] # "."
  /\ \A i \in 1..(Len(s) - 1) : s[i] = "." => s[i + 1] \in Letters

\* a unary pattern that lets spaces through
UnaryWithSpaces(s) ==
  /\ s # <<>>
  /\ s[1] \in Lower
  /\ \A i \in 1..Len(s) : s[i] \in AlphaNum \cup {" "}

\* /^[a-z][a-zA-Z0-9]*$/
UNARY_SELECTOR_PATTERN(s) ==
  /\ s # <<>>
  /\ s[1] \in Lower
  /\ \A i \in 1..Len(s) : s[i] \in AlphaNum

\* /^[+\-*/\\~<>=@%|&?!,]+$/
BINARY_SELECTOR_PATTERN(s) ==
  /\ s # <<>>
  /\ \A i \in 1..Len(s) : s[i] \in BinaryChars

\* a keyword pattern that does not ask for the final colon
KeywordNoFinalColon(s) ==
  /\ s # <<>>
  /\ \A i \in 1..Len(s) : s[i] \in AlphaNum \cup {":"}
  /\ s[1] \in Lower
  /\ \E i \in 1..Len(s) : s[i] = ":"
  /\ \A i \in 1..(Len(s) - 1) : s[i] = ":" => s[i + 1] \in Lower

\* /^([a-z][a-zA-Z0-9]*:)+$/
KEYWORD_SELECTOR_PATTERN(s) ==
  /\ s # <<>>
  /\ \A i \in 1..Len(s) : s[i] \in AlphaNum \cup {":"}
  /\ s[1] \in Lower
  /\ s[Len(s)] = ":"
  /\ \A i \in 1..(Len(s) - 1) : s[i] = ":" => s[i + 1] \in Lower

\* a server-name pattern that lets dots through
ServerNameDotted(s) ==
  /\ s # <<>>
  /\ s[1] \in Letters
  /\ \A i \in 1..Len(s) : s[i] \in AlphaNum \cup {"_", "-", "."}

\* /^[a-zA-Z][a-zA-Z0-9_-]*$/
SERVER_NAME_PATTERN(s) ==
  /\ s # <<>>
  /\ s[1] \in Letters
  /\ \A i \in 1..Len(s) : s[i] \in AlphaNum \cup {"_", "-"}

Valid == [valid |-> TRUE, error |-> <<>>]
\* a refusal that gives no reason
InvalidSilent(error) == [valid |-> FALSE, error |-> <<>>]
Invalid(error) == [valid |-> FALSE, error |-> <<error>>]

validateClassName(name) ==
  IF name.t # "string" THEN Invalid("Class name must be a string")
  ELSE IF Len(name.s) = 0 THEN Invalid("Class name cannot be empty")
  ELSE IF Len(name.s) > MAX_INPUT_LENGTH
  THEN Invalid("Class name exceeds maximum length of 1000")
  ELSE IF Test(DANGEROUS_CHARS, name.s)
  THEN Invalid("Class name contains invalid characters")
  ELSE IF ~IDENTIFIER_PATTERN(name.s)
  THEN Invalid("Class name must start with a letter and contain only letters, digits, or dots")
  ELSE Valid

validateSelector(selector) ==
  IF selector.t # "string" THEN Invalid("Selector must be a string")
  ELSE IF Len(selector.s) = 0 THEN Invalid("Selector cannot be empty")
  ELSE IF Len(selector.s) > MAX_INPUT_LENGTH
  THEN Invalid("Selector exceeds maximum length of 1000")
  ELSE IF Test(DANGEROUS_CHARS, selector.s)
  THEN Invalid("Selector contains invalid characters")
  ELSE IF /\ ~UNARY_SELECTOR_PATTERN(selector.s)
          /\ ~BINARY_SELECTOR_PATTERN(selector.s)
          /\ ~KEYWORD_SELECTOR_PATTERN(selector.s)
  THEN Invalid("Invalid selector format. Must be unary (e.g., size), binary (e.g., +), or keyword (e.g., at:put:)")
  ELSE Valid

\* a validatePattern that asks for a non-empty pattern
validatePatternNoEmpty(pattern) ==
  IF pattern.t # "string" THEN Invalid("Pattern must be a string")
  ELSE IF Len(pattern.s) = 0 THEN Invalid("Pattern cannot be empty")
  ELSE IF Len(pattern.s) > MAX_INPUT_LENGTH
  THEN Invalid("Pattern exceeds maximum length of 1000")
  ELSE IF Test(DANGEROUS_CHARS, pattern.s)
  THEN Invalid("Pattern contains invalid characters")
  ELSE Valid

validatePattern(pattern) ==
  IF pattern.t # "string" THEN Invalid("Pattern must be a string")
  ELSE IF Len(pattern.s) > MAX_INPUT_LENGTH
  THEN Invalid("Pattern exceeds maximum length of 1000")
  ELSE IF Len(pattern.s) = 0 \/ pattern.s = <<"*">> THEN Valid
  ELSE IF Test(DANGEROUS_CHARS, pattern.s)
  THEN Invalid("Pattern contains invalid characters")
  ELSE Valid

validateExpression(expression) ==
  IF expression.t # "string" THEN Invalid("Expression must be a string")
  ELSE IF Len(expression.s) = 0 THEN Invalid("Expression cannot be empty")
  ELSE IF Len(expression.s) > MAX_INPUT_LENGTH
  THEN Invalid("Expression exceeds maximum length of 1000")
  ELSE IF Test(EXPRESSION_CONTROL_CHARS, expression.s)
  THEN Invalid("Expression contains invalid control characters")
  ELSE Valid

validateSource(source) ==
  IF source.t # "string" THEN Invalid("Source must be a string")
  ELSE IF Len(source.s) = 0 THEN Invalid("Source cannot be empty")
  ELSE IF Len(source.s) > MAX_SOURCE_LENGTH
  THEN Invalid("Source exceeds maximum length of 100000")
  ELSE IF Test({NUL}, source.s) THEN Invalid("Source contains null bytes")
  ELSE Valid

\* a validateServerName that looks at the characters before the length
validateServerNameLengthLate(name) ==
  IF name.t \in {"undefined", "null"} THEN Valid
  ELSE IF name.t # "string" THEN Invalid("Server name must be a string")
  ELSE IF Len(name.s) = 0 THEN Invalid("Server name cannot be empty string")
  ELSE IF Test(DANGEROUS_CHARS, name.s)
  THEN Invalid("Server name contains invalid characters")
  ELSE IF Len(name.s) > MAX_SERVER_NAME_LENGTH
  THEN Invalid("Server name exceeds maximum length")
  ELSE IF ~SERVER_NAME_PATTERN(name.s)
  THEN Invalid("Server name must start with a letter and contain only letters, digits, underscores, or hyphens")
  ELSE Valid

validateServerName(name) ==
  IF name.t \in {"undefined", "null"} THEN Valid
  ELSE IF name.t # "string" THEN Invalid("Server name must be a string")
  ELSE IF Len(name.s) = 0 THEN Invalid("Server name cannot be empty string")
  ELSE IF Len(name.s) > MAX_SERVER_NAME_LENGTH
  THEN Invalid("Server name exceeds maximum length")
  ELSE IF Test(DANGEROUS_CHARS, name.s)
  THEN Invalid("Server name contains invalid characters")
  ELSE IF ~SERVER_NAME_PATTERN(name.s)
  THEN Invalid("Server name must start with a letter and contain only letters, digits, underscores, or hyphens")
  ELSE Valid

\* validatePort(port)
validatePort(port) ==
  LET portNum == IF port.t = "string" THEN ParseInt(port.s) ELSE port
  IN  IF portNum.t # "number" THEN Invalid("Port must be a number")
      ELSE IF portNum.s # <<>> THEN Invalid("Port must be an integer")
      ELSE IF portNum.n < 1 \/ portNum.n > 65535
      THEN Invalid("Port must be between 1 and 65535")
      ELSE Valid

\* /^[a-zA-Z0-9]([a-zA-Z0-9\-\.]*[a-zA-Z0-9])?$/
hostnamePattern(s) ==
  /\ s # <<>>
  /\ s[1] \in AlphaNum
  /\ s[Len(s)] \in AlphaNum
  /\ \A i \in 1..Len(s) : s[i] \in AlphaNum \cup {"-", "."}

validateHost(host) ==
  IF host.t # "string" THEN Invalid("Host must be a string")
  ELSE IF Len(host.s) = 0 THEN Invalid("Host cannot be empty")
  ELSE IF Len(host.s) > 253 THEN Invalid("Host exceeds maximum length")
  ELSE IF Test(DANGEROUS_CHARS, host.s) THEN Invalid("Host contains invalid characters")
  ELSE IF ~hostnamePattern(host.s) /\ host.s # <<"l", "o", "c", "a", "l", "h", "o", "s", "t">>
  THEN Invalid("Invalid hostname format")
  ELSE Valid

(***************************************************************************)
(* Tool handlers (server.tool(...))                                        *)
(***************************************************************************)
\* the arguments of a tool call after the schema's defaults are applied
NoArgs ==
  [class_name |-> JUndef, selector |-> JUndef, pattern |-> JUndef,
   expression |-> JUndef, source |-> JUndef, side |-> "instance",
   image |-> JUndef, name |-> JUndef, superclass |-> JUndef,
   instance_variables |-> <<>>, class_variables |-> <<>>,
   class_instance_variables |-> <<>>, category |-> JUndef]

Tools ==
  {"ping", "classes", "class_info", "methods", "source", "fullsource",
   "hierarchy", "eval_smalltalk", "namespaces", "search", "senders",
   "implementors", "messages", "edit_method", "undo_edit", "create_class",
   "list_images"}

\* the validations a handler runs, in source order
ToolChecks(tool, a) ==
  CASE tool \in {"ping", "namespaces"} -> <<validateServerName(a.image)>>
    [] tool \in {"classes", "search"} ->
         <<validatePattern(a.pattern), validateServerName(a.image)>>
    [] tool \in {"class_info", "methods", "fullsource", "hierarchy"} ->
         <<validateClassName(a.class_name), validateServerName(a.image)>>
    [] tool \in {"source", "messages", "undo_edit"} ->
         <<validateClassName(a.class_name), validateSelector(a.selector),
           validateServerName(a.image)>>
    [] tool = "eval_smalltalk" ->
         <<validateExpression(a.expression), validateServerName(a.image)>>
    [] tool \in {"senders", "implementors"} ->
         <<validateSelector(a.selector), validateServerName(a.image)>>
    [] tool = "edit_method" ->
         <<validateClassName(a.class_name), validateSelector(a.selector),
           validateSource(a.source), validateServerName(a.image)>>
    [] tool = "create_class" ->
         <<validateClassName(a.name), validateClassName(a.superclass),
           validateServerName(a.image)>>
    [] OTHER -> <<>>

\* a handler that forgets its last validation
FirstInvalidButLast(checks) ==
  IF \E i \in 1..(Len(checks) - 1) : ~checks[i].valid
  THEN CHOOSE i \in 1..(Len(checks) - 1) :
         ~checks[i].valid /\ \A j \in 1..(i - 1) : checks[j].valid
  ELSE 0

\* a handler that reports the last failed validation instead of the first
LastInvalid(checks) ==
  IF \E i \in 1..Len(checks) : ~checks[i].valid
  THEN CHOOSE i \in 1..Len(checks) :
         ~checks[i].valid /\ \A j \in (i + 1)..Len(checks) : checks[j].valid
  ELSE 0

\* index of the first failed validation, 0 when all pass
FirstInvalid(checks) ==
  IF \E i \in 1..Len(checks) : ~checks[i].valid
  THEN CHOOSE i \in 1..Len(checks) :
         ~checks[i].valid /\ \A j \in 1..(i - 1) : checks[j].valid
  ELSE 0

\* validationError(result)
validationError(result) ==
  [text |-> <<"Validation error: ">> \o result.error, isError |-> TRUE]

\* an encoding that leaves the text as it is
Base64Raw(text) == text

\* Buffer.from(text, 'utf8').toString('base64'): "b64:c" stands for the
\* Base64 digits ([A-Za-z0-9+/=]) that carry character c
Base64(text) == [i \in 1..Len(text) |-> "b64:" \o text[i]]

\* JSON.stringify of a string: quoted, control characters escaped
JsonString(text) ==
  <<"\"">> \o [i \in 1..Len(text) |->
                 IF text[i] \in ControlChars \cup {"\"", "\\"}
                 THEN "\\" \o text[i] ELSE text[i]] \o <<"\"">>

JsonArray(texts) ==
  <<"[">> \o Join([i \in 1..Len(texts) |-> JsonString(texts[i])], <<",">>) \o <<"]">>

\* JSON.stringify(payload) of create_class
CreateClassPayload(a) ==
  <<"{", "\"name\":">> \o JsonString(ToStr(a.name))
  \o <<",", "\"superclass\":">> \o JsonString(ToStr(a.superclass))
  \o <<",", "\"instanceVariables\":">> \o JsonArray(a.instance_variables)
  \o <<",", "\"classVariables\":">> \o JsonArray(a.class_variables)
  \o <<",", "\"classInstanceVariables\":">> \o JsonArray(a.class_instance_variables)
  \o <<",", "\"category\":">> \o JsonString(ToStr(a.category)) \o <<"}">>

\* the command a handler passes to sendCommand
ToolCommand(tool, a) ==
  CASE tool = "ping" -> <<"PING">>
    [] tool = "classes" -> <<"CLASSES", " ">> \o ToStr(a.pattern)
    [] tool = "class_info" -> <<"CLASS", " ">> \o ToStr(a.class_name)
    [] tool = "methods" -> <<"METHODS", " ">> \o ToStr(a.class_name) \o <<" ", a.side>>
    [] tool = "source" ->
         <<"SOURCE", " ">> \o ToStr(a.class_name) \o <<" ">> \o ToStr(a.selector)
    [] tool = "fullsource" -> <<"FULLSOURCE", " ">> \o ToStr(a.class_name)
    [] tool = "hierarchy" -> <<"HIERARCHY", " ">> \o ToStr(a.class_name)
    [] tool = "eval_smalltalk" -> <<"EVAL", " ">> \o ToStr(a.expression)
    [] tool = "namespaces" -> <<"NAMESPACES">>
    [] tool = "search" -> <<"SEARCH", " ">> \o ToStr(a.pattern)
    [] tool = "senders" -> <<"SENDERS", " ">> \o ToStr(a.selector)
    [] tool = "implementors" -> <<"IMPLEMENTORS", " ">> \o ToStr(a.selector)
    [] tool = "messages" ->
         <<"MESSAGES", " ">> \o ToStr(a.class_name) \o <<" ">> \o ToStr(a.selector)
    [] tool = "edit_method" ->
         <<"EDIT", " ">> \o ToStr(a.class_name) \o <<" ">> \o ToStr(a.selector)
         \o <<" ", a.side, " ">> \o Base64(ToStr(a.source))
    [] tool = "undo_edit" ->
         <<"UNDO", " ">> \o ToStr(a.class_name) \o <<" ">> \o ToStr(a.selector)
         \o <<" ", a.side>>
    [] tool = "create_class" -> <<"CREATECLASS", " ">> \o Base64(CreateClassPayload(a))
    [] OTHER -> <<>>

\* the arguments a handler passes to a validator
ValidatedFields(tool) ==
  CASE tool \in {"ping", "namespaces"} -> {"image"}
    [] tool \in {"classes", "search"} -> {"pattern", "image"}
    [] tool \in {"class_info", "methods", "fullsource", "hierarchy"} ->
         {"class_name", "image"}
    [] tool \in {"source", "messages", "undo_edit"} -> {"class_name", "selector", "image"}
    [] tool = "eval_smalltalk" -> {"expression", "image"}
    [] tool \in {"senders", "implementors"} -> {"selector", "image"}
    [] tool = "edit_method" -> {"class_name", "selector", "source", "image"}
    [] tool = "create_class" -> {"name", "superclass", "image"}
    [] OTHER -> {}

\* the free-text arguments (strings and lists of strings; `side` is an enum)
\* that a handler puts into the command it passes to sendCommand
IncorporatedFields(tool) ==
  CASE tool \in {"classes", "search"} -> {"pattern"}
    [] tool \in {"class_info", "methods", "fullsource", "hierarchy"} -> {"class_name"}
    [] tool \in {"source", "messages", "undo_edit"} -> {"class_name", "selector"}
    [] tool = "eval_smalltalk" -> {"expression"}
    [] tool \in {"senders", "implementors"} -> {"selector"}
    [] tool = "edit_method" -> {"class_name", "selector", "source"}
    [] tool = "create_class" ->
         {"name", "superclass", "instance_variables", "class_variables",
          "class_instance_variables", "category"}
    [] OTHER -> {}

\* the validator the handlers use for an argument
FieldCheck(field, a) ==
  CASE field = "class_name" -> validateClassName(a.class_name)
    [] field = "name" -> validateClassName(a.name)
    [] field = "superclass" -> validateClassName(a.superclass)
    [] field = "selector" -> validateSelector(a.selector)
    [] field = "source" -> validateSource(a.source)
    [] field = "pattern" -> validatePattern(a.pattern)
    [] field = "expression" -> validateExpression(a.expression)
    [] OTHER -> validateServerName(a.image)

\* formatResponse(result); in the response dialect `data` is a string or absent
formatResponse(result) ==
  IF result.status = "error"
  THEN <<"Error: ">> \o (IF result.message # <<>> THEN result.message
                         ELSE <<"Unknown error">>)
  ELSE IF result.data = <<>> THEN <<"No data returned">>
  ELSE result.data

\* tools that read properties of result.data (`d.name`, ...) on an ok result
ReadsDataProperties ==
  {"class_info", "hierarchy", "eval_smalltalk", "messages", "edit_method",
   "undo_edit", "create_class"}

\* the text such a handler builds from a `data` that is a string, every
\* property of which is undefined
DataText(tool) ==
  CASE tool = "class_info" ->
         <<"Class: Unknown", "\n", "Superclass: Unknown", "\n",
           "Instance Variables: (none)", "\n", "Class Variables: (none)", "\n",
           "Category: (none)">>
    [] tool = "hierarchy" ->
         <<"Class: Unknown", "\n", "", "\n", "Superclasses (ancestors):", "\n",
           "", "\n", "Direct Subclasses:", "\n", "  (none)">>
    [] tool = "eval_smalltalk" -> <<"undefined (undefined)">>
    [] tool = "messages" ->
         <<"Method: undefined >> undefined", "\n", "", "\n", "Messages sent:", "\n",
           "", "\n", "Literals referenced:">>
    [] tool = "edit_method" -> <<"Updated undefined>>undefined">>
    [] tool = "undo_edit" -> <<"Restored undefined>>undefined">>
    [] OTHER -> <<"Created class undefined < undefined in category 'undefined'">>

RECURSIVE Repeat(_, _)
Repeat(part, n) == IF n = 0 THEN <<>> ELSE part \o Repeat(part, n - 1)

\* the part of a handler after `await sendCommand(...)` resolved to `result`:
\* [threw, text]. `config` is what loadConfig returns at that moment.
ToolFinish(tool, a, result, config) ==
  IF result.status # "ok"
  THEN [threw |-> FALSE, text |-> formatResponse(result)]
  ELSE IF tool = "ping"
  THEN LET g == GetServer(config, a.image)
       IN  IF g.threw THEN [threw |-> TRUE, text |-> g.message]
           ELSE [threw |-> FALSE,
                 text |-> <<"Connected to CliBridge '">> \o ToStr(g.server.name)
                          \o <<"' at ">> \o ToStr(g.server.host) \o <<":">>
                          \o ToStr(g.server.port)]
  ELSE IF tool \in ReadsDataProperties
  THEN IF result.data = <<>>
       THEN [threw |-> TRUE, text |-> <<"Cannot read properties of undefined">>]
       ELSE [threw |-> FALSE, text |-> DataText(tool)]
  ELSE IF tool = "search"
  THEN IF result.data = <<>>
       THEN [threw |-> FALSE, text |-> <<"No matches found">>]
       ELSE [threw |-> TRUE, text |-> <<"data.map is not a function">>]
  ELSE IF tool \in {"senders", "implementors"}
  THEN LET what == IF tool = "senders" THEN "senders" ELSE "implementors"
           item == IF tool = "senders" THEN <<"\n", "  undefined >> undefined">>
                   ELSE <<"\n", "  undefined >> ">> \o ToStr(a.selector)
       IN  IF result.data = <<>>
           THEN [threw |-> FALSE,
                 text |-> <<"No ", what, " of #">> \o ToStr(a.selector) \o <<" found">>]
           ELSE [threw |-> FALSE,
                 text |-> <<what, " of #">> \o ToStr(a.selector)
                          \o <<" (", ToString(Len(result.data)), " found):">>
                          \o Repeat(item, Len(result.data))]
  ELSE [threw |-> FALSE, text |-> formatResponse(result)]

\* the list_images handler
ListImages(config) ==
  IF config.t = "null"
  THEN [threw |-> TRUE, text |-> <<"Cannot read properties of null (reading 'servers')">>]
  ELSE [threw |-> FALSE,
        text |-> Join([i \in 1..Len(config.servers) |->
                         LET e == config.servers[i]
                         IN  e.key \o <<": ">> \o ToStr(e.host) \o <<":">> \o ToStr(e.port)
                             \o (IF Truthy(e.apiKey) THEN <<" [auth]">> ELSE <<>>)
                             \o (IF config.default = JStr(e.key) THEN <<" (default)">>
                                 ELSE <<>>)],
                      <<"\n">>)]

\* One tool invocation.
\*   st  "none", "awaiting" (suspended at `await sendCommand`), "returned",
\*       "threw" (the handler's promise rejected)
NoInv == [st |-> "none", tool |-> "", args |-> NoArgs, text |-> <<>>, isError |-> FALSE]

(***************************************************************************)
(* The environment: configurations and what the remote peer may send       *)
(***************************************************************************)
NoVars == [VWCLI_HOST |-> JUndef, VWCLI_PORT |-> JUndef, VWCLI_API_KEY |-> JUndef]

Env(files, vs) ==
  [files |-> files, VWCLI_HOST |-> vs.VWCLI_HOST, VWCLI_PORT |-> vs.VWCLI_PORT,
   VWCLI_API_KEY |-> vs.VWCLI_API_KEY]

DevProdConfig ==
  Config(<< Entry(Dev, JStr(<<"dev.local">>), JNum(9998), JUndef, JUndef),
            Entry(Prod, JStr(<<"prod.local">>), JNum(9999), JStr(<<"k">>), JUndef) >>,
         JStr(Dev))

\* no default, and a port no TCP endpoint has
BadPortConfig ==
  Config(<< Entry(Prod, JStr(<<"prod.local">>), JNum(70000), JUndef, JUndef) >>, JUndef)

Environments ==
  { Env(<<File("ok", DevProdConfig)>>, NoVars),
    Env(<<AbsentFile, AbsentFile>>, NoVars),
    Env(<<AbsentFile, AbsentFile>>,
        [NoVars EXCEPT !.VWCLI_PORT = JStr(<<"a", "b", "c">>),
                       !.VWCLI_API_KEY = JStr(<<"k">>)]),
    Env(<<BadFile, File("ok", BadPortConfig)>>, NoVars),
    Env(<<File("ok", NullConfig)>>, NoVars) }

\* an entry that carries a `name` property of its own, and a default that is
\* not the first server
NamedConfig ==
  Config(<< Entry(Dev, JStr(<<"dev.local">>), JNum(9998), JUndef, JStr(<<"x">>)),
            Entry(Prod, JStr(<<"prod.local">>), JNum(9999), JStr(<<"k">>), JUndef) >>,
         JStr(Prod))

\* the environments of the direct loadConfig / getServer calls
ConfigEnvironments ==
  Environments
  \cup { Env(<<AbsentFile, BadFile, File("ok", NamedConfig)>>, NoVars),
         Env(<<AbsentFile>>,
             [NoVars EXCEPT !.VWCLI_HOST = JStr(<<"h">>),
                            !.VWCLI_PORT = JStr(<<"8", "0", "8", "0">>)]),
         Env(<<>>, [NoVars EXCEPT !.VWCLI_HOST = JStr(<<>>),
                                  !.VWCLI_PORT = JStr(<<>>),
                                  !.VWCLI_API_KEY = JStr(<<>>)]) }

\* what a caller of sendCommand passes
ImageNames == {JUndef, JStr(Dev), JStr(Prod), JStr(Staging), JStr(Ctor)}
DirectCommands == {<<"PING">>}

\* what a caller of a tool passes, field by field
ClassNames ==
  { <<"A">>, <<"A", ".", "b", "1">>, <<"1", "A">>, <<"A", "\n", "B">>, <<"A", " ", "B">> }
SuperclassNames == { <<"O", "b", "j", "e", "c", "t">>, <<"1", "A">> }
Selectors == { <<"a", "t", ":">>, <<"+">>, <<"A">>, <<"a", " ", "b">> }
Patterns == { <<"*">>, <<"a", " ", "b">>, <<"a", "\n">>, <<"$">> }
Expressions == { <<"1", "+", "2">>, <<"a", "\n", "b">>, <<NUL>>, <<>> }
Sources == { <<"a", " ", "\n", "b">>, <<NUL>>, <<>> }
ToolImages == { JUndef, JStr(Staging), JStr(<<"d", "\n">>) }
Sides == {"instance", "class"}
VariableLists == { <<>>, << <<"a", " ", "b">>, <<"c", "\n">> >> }
Categories == { <<"C">>, <<"c", "\n", "d">> }

WithImage(tool, as) == { [tool |-> tool, args |-> [a EXCEPT !.image = i]] :
                           a \in as, i \in ToolImages }

\* the invocations the model draws from
Invocations ==
  LET one == {NoArgs}
      byClass == {[NoArgs EXCEPT !.class_name = JStr(c)] : c \in ClassNames}
      bySelector == {[NoArgs EXCEPT !.selector = JStr(x)] : x \in Selectors}
      byPattern == {[NoArgs EXCEPT !.pattern = JStr(x)] : x \in Patterns}
      byClassSel == {[a EXCEPT !.selector = JStr(x)] : a \in byClass, x \in Selectors}
      sided(as) == {[a EXCEPT !.side = d] : a \in as, d \in Sides}
  IN  WithImage("ping", one) \cup WithImage("namespaces", one)
      \cup WithImage("classes", byPattern) \cup WithImage("search", byPattern)
      \cup WithImage("class_info", byClass) \cup WithImage("fullsource", byClass)
      \cup WithImage("hierarchy", byClass) \cup WithImage("methods", sided(byClass))
      \cup WithImage("source", byClassSel) \cup WithImage("messages", byClassSel)
      \cup WithImage("undo_edit", sided(byClassSel))
      \cup WithImage("senders", bySelector) \cup WithImage("implementors", bySelector)
      \cup WithImage("eval_smalltalk",
                     {[NoArgs EXCEPT !.expression = JStr(x)] : x \in Expressions})
      \cup WithImage("edit_method",
                     {[a EXCEPT !.source = JStr(x)] : a \in sided(byClassSel), x \in Sources})
      \cup WithImage("create_class",
                     {[NoArgs EXCEPT !.name = JStr(n), !.superclass = JStr(sup),
                                     !.instance_variables = v, !.category = JStr(cat)] :
                        n \in ClassNames, sup \in SuperclassNames, v \in VariableLists,
                        cat \in Categories})
      \cup {[tool |-> "list_images", args |-> NoArgs]}

\* tool calls are drawn under the two-server config file only
ToolEnvironments == { Env(<<File("ok", DevProdConfig)>>, NoVars) }

\* complete responses a peer may send (a peer may also stop short of the end)
Scripts ==
  { <<"{", "o", ByteC3, ByteA9, "}">>,
    <<"{", "e", "R", "m", "}">>,
    <<"{", "e", "F", "}">>,
    <<"{", "e", "X", "m", "}">>,
    <<"{", "o", "x", "}", "\n", "{", "x">>,
    <<"\n", "{", "o", "}", " ">>,
    <<"{", "}">>,
    <<"7">>,
    <<"n">>,
    <<"q">>,
    <<"x", "x">>,
    <<" ", "\n">> }

\* the responses drawn for a call made by a tool handler
ToolScripts ==
  { <<"{", "o", "x", "}">>,
    <<"{", "o", "}">>,
    <<"{", "e", "m", "}">> }

IsPrefix(a, b) == Len(a) <= Len(b) /\ SubSeq(b, 1, Len(a)) = a

\* the peer has sent a whole response and, after it, only blanks
Padded(scripts, rx) ==
  \E sc \in scripts : IsPrefix(sc, rx) /\ \A i \in (Len(sc) + 1)..Len(rx) : rx[i] = " "

\* the next chunk a peer may deliver after rx: up to MaxChunk further bytes of
\* a response
NextChunks(scripts, rx) ==
  UNION { { SubSeq(sc, Len(rx) + 1, Len(rx) + k) :
              k \in {j \in 1..MaxChunk : Len(rx) + j <= Len(sc)} } :
          sc \in {x \in scripts : IsPrefix(rx, x)} }

ErrorCodes(sock) ==
  IF sock = "connecting" THEN {"ECONNREFUSED", "ENOTFOUND", "ETIMEDOUT"}
  ELSE {"ECONNRESET"}

TimerRunning(s) == s.sock \in {"created", "connecting", "open", "ended"}

(***************************************************************************)
(* Actions                                                                 *)
(***************************************************************************)
\* a lone direct call draws from Scripts, a call made by a tool handler from
\* ToolScripts; when several calls are in flight each peer answers that
\* authentication is required
ScriptsFor(c) ==
  IF DOMAIN call # Calls THEN { <<"{", "e", "R", "m", "}">> }
  ELSE IF inv[c].st = "none" THEN Scripts ELSE ToolScripts

\* no exported function has been called directly
NoProbe ==
  [fn |-> "none", input |-> JUndef, valid |-> FALSE, error |-> <<>>,
   config |-> NullConfig, threw |-> FALSE, message |-> <<>>, server |-> NoServer,
   loaded |-> FALSE]

Init ==
  /\ env \in Environments
  /\ cachedConfig = NullConfig
  /\ call = [c \in Calls |-> IdleCall]
  /\ inv = [c \in Calls |-> NoInv]
  /\ reads = 0
  /\ probe = NoProbe

\* a direct sendCommand(command, imageName) call (testExports.sendCommand)
CallSendCommand(c) ==
  /\ call[c].pc = "idle"
  /\ inv[c].st = "none"
  /\ \E command \in DirectCommands, imageName \in ImageNames :
       LET config == LoadConfig(cachedConfig, env)
       IN  /\ cachedConfig' = config
           /\ reads' = ReadsAfter(cachedConfig, reads)
           /\ call' = [call EXCEPT ![c] = SendCommand(@, config, command, imageName)]
  /\ UNCHANGED <<env, probe, inv>>

\* a tool handler up to its first suspension: the validations, then either
\* the validation error or the synchronous part of sendCommand
ToolInvoke(c) ==
  /\ call[c].pc = "idle"
  /\ inv[c].st = "none"
  /\ env \in ToolEnvironments
  /\ \E i \in Invocations :
       LET checks == ToolChecks(i.tool, i.args)
           k == FirstInvalid(checks)
           config == LoadConfig(cachedConfig, env)
           started == [NoInv EXCEPT !.tool = i.tool, !.args = i.args]
       IN  IF k # 0
           THEN /\ inv' = [inv EXCEPT ![c] =
                             [started EXCEPT !.st = "returned",
                                             !.text = validationError(checks[k]).text,
                                             !.isError = validationError(checks[k]).isError]]
                /\ UNCHANGED <<call, cachedConfig, reads>>
           ELSE IF i.tool = "list_images"
           THEN /\ inv' = [inv EXCEPT ![c] =
                             [started EXCEPT
                                !.st = IF ListImages(config).threw THEN "threw"
                                       ELSE "returned",
                                !.text = ListImages(config).text]]
                /\ cachedConfig' = config
                /\ reads' = ReadsAfter(cachedConfig, reads)
                /\ UNCHANGED call
           ELSE /\ inv' = [inv EXCEPT ![c] = [started EXCEPT !.st = "awaiting"]]
                /\ cachedConfig' = config
                /\ reads' = ReadsAfter(cachedConfig, reads)
                /\ call' = [call EXCEPT ![c] =
                              SendCommand(@, config, ToolCommand(i.tool, i.args),
                                          i.args.image)]
  /\ UNCHANGED <<env, probe>>

\* the handler resumes once sendCommand's promise has settled
ToolReturn(c) ==
  /\ inv[c].st = "awaiting"
  /\ call[c].pc \in {"fulfilled", "rejected"}
  /\ LET config == LoadConfig(cachedConfig, env)
         usesConfig == call[c].pc = "fulfilled" /\ call[c].value.status = "ok"
                       /\ inv[c].tool = "ping"
         r == ToolFinish(inv[c].tool, inv[c].args, call[c].value, config)
     IN  IF call[c].pc = "rejected"
         THEN /\ inv' = [inv EXCEPT ![c].st = "threw"]
              /\ UNCHANGED <<cachedConfig, reads>>
         ELSE /\ inv' = [inv EXCEPT ![c].st = IF r.threw THEN "threw" ELSE "returned",
                                    ![c].text = r.text]
              /\ cachedConfig' = IF usesConfig THEN config ELSE cachedConfig
              /\ reads' = IF usesConfig THEN ReadsAfter(cachedConfig, reads) ELSE reads
  /\ UNCHANGED <<env, probe, call>>

\* testExports.clearConfigCache()
ClearConfigCache ==
  /\ cachedConfig # NullConfig \/ reads # 0
  /\ cachedConfig' = NullConfig
  /\ reads' = 0
  /\ UNCHANGED <<env, probe, call, inv>>

Delivered(s, ev, code, produced) ==
  [s EXCEPT !.events = Append(@, [ev |-> ev, code |-> code, produced |-> produced])]

\* the 'connect' event: the connection is established
Connect(c) ==
  /\ call[c].sock = "connecting"
  /\ call' = [call EXCEPT ![c] =
                [Delivered(OnConnect(@), "connect", "", NoValue)
                   EXCEPT !.sock = "open", !.idle = 0]]
  /\ UNCHANGED <<env, probe, cachedConfig, inv, reads>>

\* a 'data' event whose handler appends to one buffer shared by all calls
DataShared(c) ==
  /\ call[c].sock = "open"
  /\ \E chunk \in NextChunks(ScriptsFor(c), call[c].rx) :
       /\ Len(call[c].rx) + Len(chunk) <= MaxResp
       /\ call' = [d \in DOMAIN call |->
                     IF d = c
                     THEN [OnData(call[d], chunk) EXCEPT !.rx = @ \o chunk, !.idle = 0]
                     ELSE IF call[d].pc = "idle" THEN call[d]
                     ELSE OnData(call[d], chunk)]
  /\ UNCHANGED <<env, probe, cachedConfig, inv, reads>>

\* a 'data' event with the next bytes of the peer's response
Data(c) ==
  /\ call[c].sock = "open"
  /\ \E chunk \in NextChunks(ScriptsFor(c), call[c].rx) :
       /\ Len(call[c].rx) + Len(chunk) <= MaxResp
       /\ call' = [call EXCEPT ![c] =
                     [OnData(@, chunk) EXCEPT !.rx = @ \o chunk, !.idle = 0]]
  /\ UNCHANGED <<env, probe, cachedConfig, inv, reads>>

\* a 'data' event carrying one more blank after a complete response. Beyond
\* MaxResp bytes the model no longer records the blank: trim() drops trailing
\* blanks, so the buffer it leaves out cannot change what 'end' parses.
DataPadding(c) ==
  /\ call[c].sock = "open"
  /\ Padded(ScriptsFor(c), call[c].rx)
  /\ call' = [call EXCEPT ![c] =
                IF Len(@.rx) < MaxResp
                THEN [OnData(@, <<" ">>) EXCEPT !.rx = @ \o <<" ">>, !.idle = 0]
                ELSE [@ EXCEPT !.idle = 0]]
  /\ UNCHANGED <<env, probe, cachedConfig, inv, reads>>

\* the 'end' event: the peer closed its side
End(c) ==
  /\ call[c].sock = "open"
  /\ call' = [call EXCEPT ![c] =
                [Delivered(OnEnd(@), "end", "", EndResult(@.response, @.server))
                   EXCEPT !.sock = "ended"]]
  /\ UNCHANGED <<env, probe, cachedConfig, inv, reads>>

\* both directions are finished: Node closes the socket and stops its timer
Close(c) ==
  /\ call[c].sock = "ended"
  /\ call' = [call EXCEPT ![c].sock = "destroyed"]
  /\ UNCHANGED <<env, probe, cachedConfig, inv, reads>>

\* an 'error' event; Node destroys the socket that emitted it
Error(c) ==
  /\ call[c].sock \in {"connecting", "open", "ended"}
  /\ \E code \in ErrorCodes(call[c].sock) :
       call' = [call EXCEPT ![c] =
                  [Delivered(OnError(@, code), "error", code, ErrorResult(@.server, code))
                     EXCEPT !.sock = "destroyed"]]
  /\ UNCHANGED <<env, probe, cachedConfig, inv, reads>>

\* time passes without activity on the socket
Tick(c) ==
  /\ TimerRunning(call[c])
  /\ call[c].idle < TimeoutTicks
  /\ call' = [call EXCEPT ![c].idle = @ + 1]
  /\ UNCHANGED <<env, probe, cachedConfig, inv, reads>>

\* the 'timeout' event: TIMEOUT ms of inactivity
Timeout(c) ==
  /\ TimerRunning(call[c])
  /\ call[c].idle = TimeoutTicks
  /\ \A i \in 1..Len(call[c].events) : call[c].events[i].ev # "timeout"
  /\ call' = [call EXCEPT ![c] =
                Delivered(OnTimeout(@), "timeout", "", TimeoutResult(@.server))]
  /\ UNCHANGED <<env, probe, cachedConfig, inv, reads>>

Next ==
  \/ \E c \in Calls : CallSendCommand(c)
  \/ \E c \in Calls : ToolInvoke(c)
  \/ \E c \in Calls : ToolReturn(c)
  \/ ClearConfigCache
  \/ \E c \in Calls : Connect(c)
  \/ \E c \in Calls : Data(c)
  \/ \E c \in Calls : DataPadding(c)
  \/ \E c \in Calls : End(c)
  \/ \E c \in Calls : Close(c)
  \/ \E c \in Calls : Error(c)
  \/ \E c \in Calls : Tick(c)
  \/ \E c \in Calls : Timeout(c)

Spec == Init /\ [][Next]_vars

(***************************************************************************)
(* Liveness: time passes, and a timer that has run out fires               *)
(***************************************************************************)
LiveSpec ==
  /\ Init
  /\ [][Next]_vars
  /\ \A c \in Calls : WF_vars(Tick(c)) /\ WF_vars(Timeout(c))

(***************************************************************************)
(* Direct calls of loadConfig and getServer (testExports)                  *)
(***************************************************************************)
ConfigInit ==
  /\ env \in ConfigEnvironments
  /\ cachedConfig = NullConfig
  /\ call = [c \in Calls |-> IdleCall]
  /\ inv = [c \in Calls |-> NoInv]
  /\ reads = 0
  /\ probe = NoProbe

\* testExports.loadConfig()
CallLoadConfig ==
  LET config == LoadConfig(cachedConfig, env)
  IN  /\ cachedConfig' = config
      /\ reads' = ReadsAfter(cachedConfig, reads)
      /\ probe' = [NoProbe EXCEPT !.fn = "loadConfig", !.config = config,
                                  !.loaded = (cachedConfig.t = "null")]
      /\ UNCHANGED <<env, call, inv>>

\* testExports.getServer(name)
CallGetServer ==
  \E name \in ImageNames :
    LET config == LoadConfig(cachedConfig, env)
        r == GetServer(config, name)
    IN  /\ cachedConfig' = config
        /\ reads' = ReadsAfter(cachedConfig, reads)
        /\ probe' = [NoProbe EXCEPT !.fn = "getServer", !.input = name,
                                    !.config = config, !.threw = r.threw,
                                    !.message = r.message, !.server = r.server,
                                    !.loaded = (cachedConfig.t = "null")]
        /\ UNCHANGED <<env, call, inv>>

ConfigNext ==
  \/ CallLoadConfig
  \/ CallGetServer
  \/ ClearConfigCache
  \/ \E c \in Calls : CallSendCommand(c)

ConfigSpec == ConfigInit /\ [][ConfigNext]_vars

(***************************************************************************)
(* Several sendCommand calls in flight                                     *)
(***************************************************************************)
Pair == {1, 2}

PairInit ==
  /\ env = Env(<<File("ok", DevProdConfig)>>, NoVars)
  /\ cachedConfig = NullConfig
  /\ call = [c \in Pair |-> IdleCall]
  /\ inv = [c \in Pair |-> NoInv]
  /\ reads = 0
  /\ probe = NoProbe

\* the config file is rewritten while the server runs
EditConfigFile ==
  /\ env' \in { Env(<<File("ok", cfg)>>, NoVars) : cfg \in {DevProdConfig, NamedConfig} }
  /\ env' # env
  /\ UNCHANGED <<cachedConfig, call, inv, reads, probe>>

\* the calls name a server or leave it out; the peers send no padding; the
\* time that counts towards a timeout passes while a call is connecting
PairNext ==
  \/ \E c \in Pair : CallSendCommand(c) /\ call'[c].imageName \in {JUndef, JStr(Prod)}
  \/ ClearConfigCache
  \/ EditConfigFile
  \/ \E c \in Pair : Connect(c)
  \/ \E c \in Pair : Data(c)
  \/ \E c \in Pair : End(c)
  \/ \E c \in Pair : Close(c)
  \/ \E c \in Pair : Error(c)
  \/ \E c \in Pair : Tick(c) /\ call[c].sock = "connecting"
  \/ \E c \in Pair : Timeout(c)

PairSpec == PairInit /\ [][PairNext]_vars

\* ping invocations while the config file is rewritten and the cache cleared
PingSpec ==
  /\ Init
  /\ [][ \/ \E c \in Calls : ToolInvoke(c) /\ inv'[c].tool = "ping"
         \/ \E c \in Calls : ToolReturn(c)
         \/ ClearConfigCache
         \/ EditConfigFile
         \/ \E c \in Calls : Connect(c)
         \/ \E c \in Calls : Data(c)
         \/ \E c \in Calls : DataPadding(c)
         \/ \E c \in Calls : End(c)
         \/ \E c \in Calls : Close(c)
         \/ \E c \in Calls : Error(c)
         \/ \E c \in Calls : Tick(c)
         \/ \E c \in Calls : Timeout(c) ]_vars

(***************************************************************************)
(* Direct calls of the validators (lib/validation.js)                      *)
(***************************************************************************)
Validators ==
  {"validateClassName", "validateSelector", "validatePattern", "validateExpression",
   "validateSource", "validateServerName", "validateHost", "validatePort"}

Validate(fn, v) ==
  CASE fn = "validateClassName" -> validateClassName(v)
    [] fn = "validateSelector" -> validateSelector(v)
    [] fn = "validatePattern" -> validatePattern(v)
    [] fn = "validateExpression" -> validateExpression(v)
    [] fn = "validateSource" -> validateSource(v)
    [] fn = "validateServerName" -> validateServerName(v)
    [] fn = "validateHost" -> validateHost(v)
    [] fn = "validatePort" -> validatePort(v)

\* n times the character ch
Chars(ch, n) == [i \in 1..n |-> ch]

\* values of every type a caller may pass. The texts: every text of at most
\* MaxText characters over eight characters; each character the validators
\* single out, at the start, in the middle and at the end of a text; texts at
\* and around every length ceiling, well formed and with a character the
\* later checks refuse; selectors, class names, hosts and ports
ValidatorInputs ==
  LET ShortTexts ==
        UNION { [1..k -> {"a", "A", "1", ".", ":", "+", "-", "\n"}] : k \in 0..MaxText }
      MarkedTexts ==
        UNION { { <<ch>>, <<"a", ch>>, <<ch, "a">>, <<"a", ch, "b">> } :
                ch \in ControlChars \cup {BACKTICK, "$", "{", "}", " ", "_", ";", "/"} }
      LongTexts ==
        UNION { { Chars("a", n), Chars("a", n + 1), <<"\n">> \o Chars("a", n),
                  <<NUL>> \o Chars("a", n), Chars(" ", n + 1) } :
                n \in {MAX_SERVER_NAME_LENGTH, 253, MAX_INPUT_LENGTH, MAX_SOURCE_LENGTH} }
      OtherTexts ==
        { <<"a", "t", ":", "p", "u", "t", ":">>, <<"a", "t", ":", "P", "u", "t", ":">>,
          <<"s", "i", "z", "e">>, <<"S", "i", "z", "e">>, <<">", "=">>, <<"~", "~">>,
          <<"a", "t", ":", "1", ":">>, <<"a", "1", ":", "b", "2", ":">>,
          <<"C", "o", "r", "e", ".", "O", "b", "j", "e", "c", "t">>,
          <<"A", ".", "B", ".", "c", "1">>, <<"A", ".", ".", "B">>, <<"A", ".", "1", "B">>,
          <<"l", "o", "c", "a", "l", "h", "o", "s", "t">>,
          <<"1", "2", "7", ".", "0", ".", "0", ".", "1">>,
          <<"m", "y", "_", "s", "e", "r", "v", "e", "r">>, <<"3", "+", "4">>,
          <<"8", "0">>, <<"8", "0", ".", "5">>, <<"9", "9", "9", "9", ".", "1">>,
          <<"a", "b", "c">>, <<"0">>, <<"6", "5", "5", "3", "5">>,
          <<"6", "5", "5", "3", "6">>, <<"-", "1">>, <<"8", "0", "a", "b", "c">>,
          <<" ", "8", "0">>, <<"1", "e", "3">>, <<"*">>, <<"*", "*">>,
          <<"O", "b", "j", "*">> }
  IN  { JUndef, JNull, JNaN, JInfinity, JHalf(80), JHalf(0), JNum(-1), JNum(0), JNum(1),
        JNum(80), JNum(65535), JNum(65536), JNum(100000) }
      \cup { JStr(x) : x \in ShortTexts \cup MarkedTexts \cup LongTexts \cup OtherTexts }

ValidatorInit ==
  /\ env = Env(<<>>, NoVars)
  /\ cachedConfig = NullConfig
  /\ call = [c \in Calls |-> IdleCall]
  /\ inv = [c \in Calls |-> NoInv]
  /\ reads = 0
  /\ probe \in { [NoProbe EXCEPT !.input = v] : v \in ValidatorInputs }

\* one validator applied to the input
CallValidator ==
  /\ probe.fn = "none"
  /\ \E fn \in Validators :
       probe' = [probe EXCEPT !.fn = fn, !.valid = Validate(fn, probe.input).valid,
                              !.error = Validate(fn, probe.input).error]
  /\ UNCHANGED <<env, cachedConfig, call, inv, reads>>

ValidatorNext == CallValidator

ValidatorSpec == ValidatorInit /\ [][ValidatorNext]_vars

(***************************************************************************)
(* Properties                                                              *)
(***************************************************************************)
Count(log, op) == Cardinality({i \in 1..Len(log) : log[i].op = op})

IsTerminal(e) == e.ev \in {"end", "timeout", "error"}

\* the end, timeout and error events delivered to a call's socket, in order
Terminals(s) == SelectSeq(s.events, IsTerminal)

Connected(s) == \E i \in 1..Len(s.events) : s.events[i].ev = "connect"

\* the config every loadConfig of this run returns
TheConfig == LoadConfig(NullConfig, env)

\* whether sendCommand's getServer call threw for this call's server name
ServerUnknown(s) == GetServer(TheConfig, s.imageName).threw

\* the call took a failure path: no server, a transport error, a timeout, or
\* a response whose first line does not parse
Failed(s) ==
  \/ ServerUnknown(s)
  \/ /\ Terminals(s) # <<>>
     /\ \/ Terminals(s)[1].ev \in {"error", "timeout"}
        \/ ~JSONParse(FirstLine(Trim(s.response))).ok

\* C1: the promise of sendCommand never rejects, and a call that took a
\* failure path (unknown server, transport error, timeout, unparseable
\* response) is resolved to an envelope whose status is 'error'.
C1_NeverRejects ==
  \A c \in Calls :
    /\ call[c].pc # "rejected"
    /\ (call[c].pc = "fulfilled" /\ Failed(call[c]))
         => call[c].value.t = "object" /\ call[c].value.status = "error"

\* C2: as soon as an end, timeout or error event has been delivered to a
\* call's socket the call is resolved, and its result is, and stays, the one
\* the first of these events produced.
C2_FirstTerminalWins ==
  \A c \in Calls :
    Terminals(call[c]) # <<>>
      => /\ call[c].pc = "fulfilled"
         /\ call[c].value = Terminals(call[c])[1].produced

\* C3: every line a tool invocation writes to the socket holds exactly one
\* newline, and it is the line's last character.
C3_OneNewlineLast ==
  \A c \in Calls :
    inv[c].st # "none"
      => \A i \in 1..Len(call[c].log) :
           call[c].log[i].op = "write"
             => LET line == call[c].log[i].arg
                IN  /\ line # <<>>
                    /\ line[Len(line)] = "\n"
                    /\ \A j \in 1..(Len(line) - 1) : line[j] # "\n"

\* C4: a tool invocation with an invalid validated argument has returned
\* 'Validation error: <reason>' flagged isError, and sendCommand was not
\* invoked for it: no socket, no connection attempt, nothing on a socket.
C4_InvalidArgumentStopsHandler ==
  \A c \in Calls :
    LET checks == ToolChecks(inv[c].tool, inv[c].args)
    IN  (inv[c].st # "none" /\ \E k \in 1..Len(checks) : ~checks[k].valid)
          => /\ inv[c].st = "returned"
             /\ inv[c].isError
             /\ \E k \in 1..Len(checks) :
                  /\ ~checks[k].valid
                  /\ inv[c].text = <<"Validation error: ">> \o checks[k].error
             /\ call[c] = IdleCall

\* a source invocation whose class name is valid and whose selector is not
C4_Witness ==
  \E c \in Calls :
    /\ inv[c].st = "returned"
    /\ inv[c].tool = "source"
    /\ validateClassName(inv[c].args.class_name).valid
    /\ ~validateSelector(inv[c].args.selector).valid
    /\ inv[c].isError

\* C5: a call naming a server that is not a key of the configured server
\* mapping is resolved to the error 'Unknown server: <name>. Available:
\* <keys, comma-separated>', and no socket is created or connected.
C5_UnknownServerNoSocket ==
  \A c \in Calls :
    LET s == call[c]
    IN  (/\ s.pc # "idle"
         /\ TheConfig.t = "object"
         /\ s.imageName.t = "string"
         /\ ~HasOwn(TheConfig.servers, s.imageName.s))
          => /\ s.pc = "fulfilled"
             /\ s.value = ErrorEnvelope(<<"Unknown server: ">> \o s.imageName.s
                                        \o <<". Available: ">>
                                        \o Join(OwnKeys(TheConfig.servers), <<", ">>))
             /\ s.log = <<>>

\* C6 as stated: every call creates exactly one socket and calls connect on
\* it exactly once, whatever the outcome.
C6_ExactlyOneAttempt ==
  \A c \in Calls :
    call[c].pc # "idle"
      => /\ Count(call[c].log, "new Socket") = 1
         /\ Count(call[c].log, "connect") = 1

\* C6 (amended): a call whose server name resolves creates exactly one socket
\* and calls connect on it exactly once, a call whose server name does not
\* resolve creates none; whatever the outcome there is no second socket, no
\* second connect and no second write.
C6_AtMostOneAttempt ==
  \A c \in Calls :
    LET n == IF ServerUnknown(call[c]) THEN 0 ELSE 1
    IN  call[c].pc # "idle"
          => /\ Count(call[c].log, "new Socket") = n
             /\ Count(call[c].log, "connect") = n
             /\ Count(call[c].log, "write") <= n

\* a call that failed with a transport error after its one attempt
C6_Witness ==
  \E c \in Calls :
    /\ call[c].pc = "fulfilled"
    /\ Terminals(call[c]) # <<>>
    /\ Terminals(call[c])[1].ev = "error"
    /\ Count(call[c].log, "connect") = 1

\* C7: every call that is pending is eventually resolved, whatever the peer
\* does.
C7_EventuallyResolves ==
  \A c \in Calls : (call[c].pc = "pending") ~> (call[c].pc = "fulfilled")

IsWriteOrEnd(e) == e.op \in {"write", "end"}

\* C8: once the connect event has been delivered the socket has seen exactly
\* one write, of the command line, followed at once by end, and never sees
\* another write or end; before the connect event it has seen neither.
C8_WriteOnceThenEnd ==
  \A c \in Calls :
    LET s == call[c]
        io == SelectSeq(s.log, IsWriteOrEnd)
    IN  IF Connected(s)
        THEN /\ io = << [op |-> "write", arg |-> CommandLine(s.server, s.command)],
                        [op |-> "end", arg |-> <<>>] >>
             /\ \E i \in 1..(Len(s.log) - 1) :
                  s.log[i].op = "write" /\ s.log[i + 1].op = "end"
        ELSE io = <<>>

\* the peer's bytes and its end arrived after the write and the half-close
C8_Witness ==
  \E c \in Calls :
    /\ Connected(call[c])
    /\ call[c].rx # <<>>
    /\ call[c].pc = "fulfilled"
    /\ Count(call[c].log, "write") = 1

\* C9: whenever response bytes have been appended to the buffer, or the end
\* handler has parsed a response, the command was written and the write side
\* half-closed before.
C9_WritePrecedesRead ==
  \A c \in Calls :
    LET s == call[c]
    IN  (\/ s.rx # <<>>
         \/ s.response # <<>>
         \/ \E i \in 1..Len(s.events) : s.events[i].ev = "end")
          => \E i, j \in 1..Len(s.log) :
               i < j /\ s.log[i].op = "write" /\ s.log[j].op = "end"

\* response bytes are in the buffer of a call still pending
C9_Witness ==
  \E c \in Calls :
    /\ call[c].pc = "pending"
    /\ Len(call[c].response) >= 2
    /\ Count(call[c].log, "end") = 1

\* C10: a call resolved by the end event has the result that the same bytes,
\* delivered in a single data event, produce.
C10_ChunkingEquivalent ==
  \A c \in Calls :
    LET s == call[c]
    IN  (Terminals(s) # <<>> /\ Terminals(s)[1].ev = "end" /\ s.pc = "fulfilled")
          => s.value = EndResult(Utf8Decode(s.rx), s.server)

\* the call was resolved by the end event
ResolvedByEnd(s) ==
  s.pc = "fulfilled" /\ Terminals(s) # <<>> /\ Terminals(s)[1].ev = "end"

HasNewline(text) == \E i \in 1..Len(text) : text[i] = "\n"

\* C11: when the accumulated output begins with a line L that is valid JSON,
\* the result is the result for L alone, whatever follows L's newline.
C11_FirstLineOnly ==
  \A c \in Calls :
    LET s == call[c]
        L == FirstLine(s.response)
    IN  (ResolvedByEnd(s) /\ JSONParse(L).ok)
          => s.value = EndResult(L, s.server)

\* a valid first line was followed by a newline and text that is not JSON
C11_Witness ==
  \E c \in Calls :
    LET s == call[c]
        L == FirstLine(s.response)
        T == SubSeq(s.response, Len(L) + 2, Len(s.response))
    IN  /\ ResolvedByEnd(s)
        /\ JSONParse(L).ok
        /\ HasNewline(s.response)
        /\ T # <<>>
        /\ ~JSONParse(T).ok

\* C12: when the connection ends and the first line of the trimmed buffer is
\* not parseable JSON, the call is resolved to an error envelope whose message
\* starts with 'Invalid JSON response:'.
C12_InvalidJson ==
  \A c \in Calls :
    LET s == call[c]
    IN  (/\ Terminals(s) # <<>>
         /\ Terminals(s)[1].ev = "end"
         /\ ~JSONParse(FirstLine(Trim(s.response))).ok)
          => /\ s.pc = "fulfilled"
             /\ s.value.t = "object"
             /\ s.value.status = "error"
             /\ s.value.message # <<>>
             /\ s.value.message[1] = "Invalid JSON response: "

\* the peer closed after a truncated object
C12_Witness ==
  \E c \in Calls :
    /\ ResolvedByEnd(call[c])
    /\ call[c].response # <<>>
    /\ call[c].response[1] = "{"
    /\ ~JSONParse(FirstLine(Trim(call[c].response))).ok

\* C13: every value a call is resolved to is a well-formed Response
\* Envelope: an object whose status is 'ok' or 'error', an error carrying a
\* message.
C13_WellFormedEnvelope ==
  \A c \in Calls :
    call[c].pc = "fulfilled"
      => /\ call[c].value.t = "object"
         /\ call[c].value.status \in {"ok", "error"}
         /\ call[c].value.status = "error" => call[c].value.message # <<>>

\* the envelope the first line of the buffer parses to
ParsedEnvelope(s) == JSONParse(FirstLine(Trim(s.response))).value

\* C14: a parsed envelope with status 'error' and code AUTH_REQUIRED is
\* resolved as the error "Authentication required for '<server name>'. Add
\* apiKey to your config.", one with code AUTH_FAILED as "Invalid API key for
\* '<server name>'. Check your configuration.", and every other parsed
\* envelope as it is.
C14_AuthRewriting ==
  \A c \in Calls :
    LET s == call[c]
        r == ParsedEnvelope(s)
    IN  (ResolvedByEnd(s) /\ r.t = "object")
          => s.value =
               IF r.status = "error" /\ r.code = "AUTH_REQUIRED"
               THEN ErrorEnvelope(<<"Authentication required for '">>
                                  \o ToStr(s.server.name)
                                  \o <<"'. Add apiKey to your config.">>)
               ELSE IF r.status = "error" /\ r.code = "AUTH_FAILED"
               THEN ErrorEnvelope(<<"Invalid API key for '">>
                                  \o ToStr(s.server.name)
                                  \o <<"'. Check your configuration.">>)
               ELSE r

\* the peer answered AUTH_REQUIRED with a message of its own, which was replaced
C14_Witness ==
  \E c \in Calls :
    /\ ResolvedByEnd(call[c])
    /\ ParsedEnvelope(call[c]).code = "AUTH_REQUIRED"
    /\ ParsedEnvelope(call[c]).message # <<>>
    /\ call[c].value.message # ParsedEnvelope(call[c]).message
    /\ call[c].server.name = JStr(Prod)

\* C15: when the timeout event is the first of a call's terminal events, the
\* socket has been destroyed and the call is resolved to the error
\* 'Connection timed out to <host>:<port>' of its descriptor, whatever the
\* response buffer holds.
C15_TimeoutResolves ==
  \A c \in Calls :
    LET s == call[c]
    IN  (Terminals(s) # <<>> /\ Terminals(s)[1].ev = "timeout")
          => /\ s.sock = "destroyed"
             /\ Count(s.log, "destroy") >= 1
             /\ s.pc = "fulfilled"
             /\ s.value = ErrorEnvelope(<<"Connection timed out to ">>
                                        \o ToStr(s.server.host) \o <<":">>
                                        \o ToStr(s.server.port))

HasApiKey(server) == server.apiKey.t = "string" /\ server.apiKey.s # <<>>

\* C17: the line written is 'AUTH:<key> ' + command + newline when the
\* call's descriptor carries a (non-empty) API key, and command + newline
\* when it carries none; the command is the text sendCommand was given.
C17_AuthPrefix ==
  \A c \in Calls :
    LET s == call[c]
    IN  \A i \in 1..Len(s.log) :
          s.log[i].op = "write"
            => s.log[i].arg =
                 IF HasApiKey(s.server)
                 THEN <<"AUTH:">> \o s.server.apiKey.s \o <<" ">> \o s.command \o <<"\n">>
                 ELSE s.command \o <<"\n">>

\* a command was written to a server that has an API key
C17_Witness ==
  \E c \in Calls :
    /\ HasApiKey(call[c].server)
    /\ Count(call[c].log, "write") = 1
    /\ call[c].command # <<>>

\* the key of config.servers a call asks for: the given name, else the
\* config's default, else its first key
RequestedKey(s) ==
  IF s.imageName.t = "string" THEN s.imageName.s
  ELSE IF TheConfig.default.t = "string" THEN TheConfig.default.s
  ELSE TheConfig.servers[1].key

\* C18: a call for a configured server (named, or the default when no name
\* is given) calls connect exactly once, with the port and host that the
\* config gives for that server.
C18_ConnectTarget ==
  \A c \in Calls :
    LET s == call[c]
    IN  (/\ s.pc # "idle"
         /\ TheConfig.t = "object"
         /\ HasOwn(TheConfig.servers, RequestedKey(s)))
          => LET e == OwnEntry(TheConfig.servers, RequestedKey(s))
             IN  /\ Count(s.log, "connect") = 1
                 /\ \A i \in 1..Len(s.log) :
                      s.log[i].op = "connect"
                        => s.log[i].arg = ToStr(e.port) \o ToStr(e.host)

\* a call that named the second server of the config has connected
C18_Witness ==
  \E c \in Calls :
    /\ call[c].imageName = JStr(Prod)
    /\ Connected(call[c])
    /\ Count(call[c].log, "connect") = 1

\* C19: whenever a tool handler has invoked sendCommand, every free-text
\* argument it put into the command was passed to a validator before.
C19_EveryArgumentValidated ==
  \A c \in Calls :
    (inv[c].st # "none" /\ call[c].pc # "idle")
      => IncorporatedFields(inv[c].tool) \subseteq ValidatedFields(inv[c].tool)

\* the order of validation the claim gives: class names, selector, source,
\* pattern or expression, server name last
FieldOrder ==
  <<"class_name", "name", "superclass", "selector", "source", "pattern",
    "expression", "image">>

\* C20: when some validated fields of an invocation are invalid, the handler
\* returns the validation error of the earliest invalid field in the order
\* class name, selector, source, pattern or expression, server name.
C20_FirstInvalidFieldReported ==
  \A c \in Calls :
    LET a == inv[c].args
        bad == {i \in 1..Len(FieldOrder) :
                  /\ FieldOrder[i] \in ValidatedFields(inv[c].tool)
                  /\ ~FieldCheck(FieldOrder[i], a).valid}
    IN  (inv[c].st # "none" /\ bad # {})
          => LET first == CHOOSE i \in bad : \A j \in bad : i <= j
             IN  /\ inv[c].st = "returned"
                 /\ inv[c].text = <<"Validation error: ">>
                                  \o FieldCheck(FieldOrder[first], a).error

\* edit_method with an invalid class name, selector and server name
C20_Witness ==
  \E c \in Calls :
    /\ inv[c].st = "returned"
    /\ inv[c].tool = "edit_method"
    /\ ~validateClassName(inv[c].args.class_name).valid
    /\ ~validateSelector(inv[c].args.selector).valid
    /\ ~validateServerName(inv[c].args.image).valid
    /\ inv[c].text = <<"Validation error: ">>
                     \o validateClassName(inv[c].args.class_name).error

\* the first path of CONFIG_PATHS that exists and parses, 0 when there is none
FirstQualifying(files) ==
  IF \E i \in 1..Len(files) : files[i].st = "ok"
  THEN CHOOSE i \in 1..Len(files) :
         files[i].st = "ok" /\ \A j \in 1..(i - 1) : files[j].st # "ok"
  ELSE 0

\* a variable that is set to a non-empty text
IsSet(v) == v.t = "string" /\ v.s # <<>>

\* C21: between two cache clears loadConfig reads the configuration sources
\* at most once, whatever loadConfig, getServer and sendCommand calls are made
C21_ReadsAtMostOnce == reads <= 1

\* C22: a loadConfig that goes to the sources returns the content of the
\* first path, in order, that exists and parses, skipping the paths that are
\* absent or broken; when no path qualifies it returns the single server
\* 'default' built from VWCLI_HOST (default localhost), VWCLI_PORT (default
\* 9999) and VWCLI_API_KEY (default none)
C22_LoadOrder ==
  (probe.fn \in {"loadConfig", "getServer"} /\ probe.loaded) =>
    LET i == FirstQualifying(env.files)
    IN  IF i # 0 THEN probe.config = env.files[i].cfg
        ELSE probe.config =
               Config(<< Entry(DefaultName,
                               IF IsSet(env.VWCLI_HOST) THEN env.VWCLI_HOST
                               ELSE JStr(<<"localhost">>),
                               IF IsSet(env.VWCLI_PORT) THEN ParseInt(env.VWCLI_PORT.s)
                               ELSE JNum(9999),
                               IF IsSet(env.VWCLI_API_KEY) THEN env.VWCLI_API_KEY
                               ELSE JUndef,
                               JUndef) >>,
                      JStr(DefaultName))

\* a broken path was skipped and a later path was loaded
C22_Witness ==
  /\ probe.fn = "loadConfig"
  /\ probe.loaded
  /\ \E i \in 1..Len(env.files) :
       /\ env.files[i].st = "ok"
       /\ probe.config = env.files[i].cfg
       /\ \E j \in 1..(i - 1) : env.files[j].st = "bad"

\* C23: getServer(name) returns the descriptor stored under the name given,
\* or under the configured default when no name is given, with the resolved
\* name in its name field; a resolved name that is not in the server mapping
\* makes it throw 'Unknown server: <name>. Available: <configured names>'
C23_GetServerContract ==
  (probe.fn = "getServer" /\ probe.config.t # "null") =>
    LET resolved == Or(probe.input, probe.config.default)
        servers == probe.config.servers
    IN  Truthy(resolved) =>
          IF HasOwn(servers, resolved.s)
          THEN /\ ~probe.threw
               /\ probe.server.host = OwnEntry(servers, resolved.s).host
               /\ probe.server.port = OwnEntry(servers, resolved.s).port
               /\ probe.server.apiKey = OwnEntry(servers, resolved.s).apiKey
               /\ probe.server.name = resolved
          ELSE /\ probe.threw
               /\ probe.message = <<"Unknown server: ">> \o resolved.s
                                    \o <<". Available: ">>
                                    \o Join(OwnKeys(servers), <<", ">>)

\* C24: every validator returns, for an input of any type, either valid
\* with no error or invalid with a non-empty error text
C24_ValidatorsTotal ==
  probe.fn \in Validators =>
    \/ probe.valid /\ probe.error = <<>>
    \/ ~probe.valid /\ Len(probe.error) = 1 /\ probe.error[1] # ""

\* a validator has refused a value that is not a string
C24_Witness ==
  /\ probe.fn \in Validators
  /\ probe.input.t \in {"number", "null", "undefined", "NaN"}
  /\ ~probe.valid
  /\ probe.error # <<>>

\* the control characters, the backtick, $, { and }
RefusedEverywhere ==
  {NUL, "\t", "\n", VT, "\f", "\r", ESC, DEL, BACKTICK, "$", "{", "}"}

\* C25: validateClassName, validateSelector, validateHost, validateServerName
\* and validatePattern refuse every text that holds, at any position, a
\* control character, a backtick, $, { or }: no text they accept holds one
C25_DangerousRejected ==
  ( /\ probe.fn \in {"validateClassName", "validateSelector", "validateHost",
                     "validateServerName", "validatePattern"}
    /\ probe.input.t = "string"
    /\ probe.valid )
  => ~Test(RefusedEverywhere, probe.input.s)

\* validatePattern has refused a text that ends in a closing brace
C25_Witness ==
  /\ probe.fn = "validatePattern"
  /\ probe.input.t = "string"
  /\ Len(probe.input.s) > 1
  /\ probe.input.s[Len(probe.input.s)] = "}"
  /\ ~probe.valid

\* the length ceiling the validators are said to enforce
Ceiling(fn) ==
  CASE fn = "validateServerName" -> 100
    [] fn = "validateHost" -> 253
    [] fn = "validateSource" -> 100000
    [] OTHER -> 1000

\* the maximum-length error of each validator
CeilingError(fn) ==
  CASE fn = "validateClassName" -> "Class name exceeds maximum length of 1000"
    [] fn = "validateSelector" -> "Selector exceeds maximum length of 1000"
    [] fn = "validatePattern" -> "Pattern exceeds maximum length of 1000"
    [] fn = "validateExpression" -> "Expression exceeds maximum length of 1000"
    [] fn = "validateSource" -> "Source exceeds maximum length of 100000"
    [] fn = "validateServerName" -> "Server name exceeds maximum length"
    [] fn = "validateHost" -> "Host exceeds maximum length"

\* C26: a well-formed input of exactly the maximum length is accepted, and
\* an input that is longer is refused with the maximum-length error whatever
\* characters it holds
C26_LengthCeiling ==
  (probe.fn \in Validators \ {"validatePort"} /\ probe.input.t = "string") =>
    /\ Len(probe.input.s) > Ceiling(probe.fn) =>
         ~probe.valid /\ probe.error = <<CeilingError(probe.fn)>>
    /\ ( /\ Len(probe.input.s) = Ceiling(probe.fn)
         /\ \A i \in 1..Len(probe.input.s) : probe.input.s[i] = "a" )
       => probe.valid

\* a server name one character too long that starts with a newline was
\* refused for its length
C26_Witness ==
  /\ probe.fn = "validateServerName"
  /\ probe.input.t = "string"
  /\ Len(probe.input.s) = 101
  /\ probe.input.s[1] = "\n"
  /\ probe.error = <<"Server name exceeds maximum length">>

\* a text of decimal digits only
DigitText(s) == s # <<>> /\ \A i \in 1..Len(s) : s[i] \in Digits

\* decimal digits, a point, decimal digits with one that is not zero
FractionText(s) ==
  \E k \in 2..(Len(s) - 1) :
    /\ s[k] = "."
    /\ DigitText(SubSeq(s, 1, k - 1))
    /\ DigitText(SubSeq(s, k + 1, Len(s)))
    /\ \E i \in (k + 1)..Len(s) : s[i] # "0"

\* C27: validatePort accepts exactly the numbers and numeric strings that
\* denote an integer in 1..65535; NaN, null and texts without a digit are
\* refused, and a fractional port, as a number or as a string, is refused
\* with the 'must be an integer' message
C27_PortContract ==
  probe.fn = "validatePort" =>
    LET v == probe.input
    IN  CASE v.t = "number" /\ v.s = <<>> -> probe.valid <=> (1 <= v.n /\ v.n <= 65535)
          [] v.t = "number" /\ v.s = <<".5">> ->
               ~probe.valid /\ probe.error = <<"Port must be an integer">>
          [] v.t \in {"NaN", "null", "undefined"} -> ~probe.valid
          [] v.t = "string" /\ DigitText(v.s) ->
               probe.valid <=> (1 <= DecimalValue(v.s) /\ DecimalValue(v.s) <= 65535)
          [] v.t = "string" /\ FractionText(v.s) ->
               ~probe.valid /\ probe.error = <<"Port must be an integer">>
          [] v.t = "string" /\ (\A i \in 1..Len(v.s) : v.s[i] \notin Digits) -> ~probe.valid
          [] OTHER -> TRUE

\* C28: validateExpression accepts a text exactly when it is not empty, at
\* most 1000 characters long and holds no control character other than
\* newline and tab
C28_ExpressionContract ==
  (probe.fn = "validateExpression" /\ probe.input.t = "string") =>
    ( probe.valid <=>
        /\ Len(probe.input.s) >= 1
        /\ Len(probe.input.s) <= 1000
        /\ \A i \in 1..Len(probe.input.s) :
             probe.input.s[i] \notin {NUL, VT, "\f", "\r", ESC, DEL} )

\* a letter of the given set followed by letters and digits
Identifier(s, first) ==
  /\ s # <<>>
  /\ s[1] \in first
  /\ \A i \in 2..Len(s) : s[i] \in Lower \cup Upper \cup Digits

UnaryShape(s) == Identifier(s, Lower)

BinaryShape(s) ==
  /\ s # <<>>
  /\ \A i \in 1..Len(s) :
       s[i] \in {"+", "-", "*", "/", "\\", "~", "<", ">", "=", "@", "%", "|", "&",
                 "?", "!", ","}

RECURSIVE KeywordShape(_)
\* one or more segments, each a lowercase-led identifier followed by a colon
KeywordShape(s) ==
  \E k \in 2..Len(s) :
    /\ s[k] = ":"
    /\ Identifier(SubSeq(s, 1, k - 1), Lower)
    /\ k = Len(s) \/ KeywordShape(SubSeq(s, k + 1, Len(s)))

RECURSIVE DottedSegments(_)
\* one or more letter-led identifiers separated by single dots
DottedSegments(s) ==
  IF \A i \in 1..Len(s) : s[i] # "." THEN Identifier(s, Lower \cup Upper)
  ELSE LET k == CHOOSE i \in 1..Len(s) : s[i] = "." /\ \A j \in 1..(i - 1) : s[j] # "."
       IN  /\ Identifier(SubSeq(s, 1, k - 1), Lower \cup Upper)
           /\ DottedSegments(SubSeq(s, k + 1, Len(s)))

\* C30: validateClassName accepts a text of 1..1000 characters exactly when
\* it is one or more segments separated by single dots, each a letter
\* followed by letters and digits
C30_ClassNameGrammar ==
  ( /\ probe.fn = "validateClassName"
    /\ probe.input.t = "string"
    /\ Len(probe.input.s) \in 1..1000 )
  => (probe.valid <=> DottedSegments(probe.input.s))

\* the namespaced name Core.Object was accepted
C30_Witness ==
  /\ probe.fn = "validateClassName"
  /\ probe.input = JStr(<<"C", "o", "r", "e", ".", "O", "b", "j", "e", "c", "t">>)
  /\ probe.valid

\* C31: validatePattern accepts the empty text and '*', and any other text
\* exactly when it is at most 1000 characters long and holds no control
\* character, backtick, $, { or }
C31_PatternContract ==
  (probe.fn = "validatePattern" /\ probe.input.t = "string") =>
    ( probe.valid <=>
        \/ probe.input.s = <<>>
        \/ probe.input.s = <<"*">>
        \/ /\ Len(probe.input.s) <= 1000
           /\ ~Test(RefusedEverywhere, probe.input.s) )

\* the empty pattern was accepted
C31_Witness ==
  /\ probe.fn = "validatePattern"
  /\ probe.input = JStr(<<>>)
  /\ probe.valid

\* C32: validateServerName accepts undefined and null; any other input it
\* accepts exactly when it is a text of 1..100 characters that starts with a
\* letter and goes on with letters, digits, underscores or hyphens
C32_ServerNameContract ==
  probe.fn = "validateServerName" =>
    ( probe.valid <=>
        \/ probe.input.t \in {"undefined", "null"}
        \/ /\ probe.input.t = "string"
           /\ Len(probe.input.s) \in 1..100
           /\ probe.input.s[1] \in Lower \cup Upper
           /\ \A i \in 2..Len(probe.input.s) :
                probe.input.s[i] \in Lower \cup Upper \cup Digits \cup {"_", "-"} )

\* a name with an underscore was accepted
C32_Witness ==
  /\ probe.fn = "validateServerName"
  /\ probe.input = JStr(<<"m", "y", "_", "s", "e", "r", "v", "e", "r">>)
  /\ probe.valid

\* C33: after the first end, timeout or error event of a call every later
\* one is a no-op: the result stays the one the first event produced, no
\* handler destroys the socket any more, and after an end no timeout event is
\* delivered, the timer being disarmed
C33_LaterTerminalsNoOp ==
  \A c \in Calls :
    LET s == call[c]
        T == Terminals(s)
    IN  T # <<>> =>
          /\ s.pc = "fulfilled" => s.value = T[1].produced
          /\ T[1].ev # "timeout" => Count(s.log, "destroy") = 0
          /\ T[1].ev = "end" => \A i \in 1..Len(s.events) : s.events[i].ev # "timeout"

\* C34: with several calls in flight a step changes at most one call; a
\* rewritten config file or a cleared cache changes none; a call keeps the
\* command and the descriptor it resolved when it started; what it writes,
\* where it connects and what its end event resolves to come from its own
\* command, descriptor and buffer
C34_CallsIndependent ==
  [][ \A c \in DOMAIN call :
        /\ call[c].pc # "idle" =>
             /\ call'[c].server = call[c].server
             /\ call'[c].command = call[c].command
        /\ (call[c].pc = "idle" /\ call'[c].pc # "idle" /\ call'[c].sock # "none") =>
             call'[c].server =
               GetServer(LoadConfig(cachedConfig, env), call'[c].imageName).server
        /\ call'[c] # call[c] => \A d \in DOMAIN call \ {c} : call'[d] = call[d]
        /\ (env' # env \/ (cachedConfig # NullConfig /\ cachedConfig' = NullConfig)) =>
             call'[c] = call[c]
        /\ \A i \in 1..Len(call'[c].log) :
             /\ call'[c].log[i].op = "write" =>
                  call'[c].log[i].arg = CommandLine(call'[c].server, call'[c].command)
             /\ call'[c].log[i].op = "connect" =>
                  call'[c].log[i].arg = ToStr(call'[c].server.port)
                                        \o ToStr(call'[c].server.host)
        /\ ResolvedByEnd(call'[c]) =>
             call'[c].value = EndResult(call'[c].response, call'[c].server)
    ]_vars

\* one call has been resolved by its end event while another call, to a
\* different server, is pending with response bytes in its buffer
C34_Witness ==
  \E c, d \in DOMAIN call :
    /\ c # d
    /\ ResolvedByEnd(call[c])
    /\ call[d].pc = "pending"
    /\ call[d].response # <<>>
    /\ call[c].server.name # call[d].server.name
    /\ cachedConfig = NullConfig

\* C35: no connect event is delivered to a call after its timeout or error
\* event, and nothing is written to a socket after a timeout or error: a call
\* whose timeout or error came before any connect has written nothing
C35_NoWriteAfterFailure ==
  \A c \in Calls :
    LET s == call[c]
    IN  /\ \A i, j \in 1..Len(s.events) :
             (i < j /\ s.events[i].ev \in {"timeout", "error"})
               => s.events[j].ev # "connect"
        /\ \A i, j \in 1..Len(s.log) :
             (i < j /\ s.log[i].op = "destroy") => s.log[j].op # "write"
        /\ ( /\ s.events # <<>>
             /\ s.events[1].ev \in {"timeout", "error"} )
           => Count(s.log, "write") = 0

\* a call timed out while connecting: resolved, socket destroyed, nothing
\* written
C35_Witness ==
  \E c \in Calls :
    /\ call[c].pc = "fulfilled"
    /\ call[c].events # <<>>
    /\ call[c].events[1].ev = "timeout"
    /\ call[c].sock = "destroyed"
    /\ Count(call[c].log, "connect") = 1
    /\ Count(call[c].log, "write") = 0

\* the positions of a line that hold the character ch
Positions(line, ch) == {i \in 1..Len(line) : line[i] = ch}

WellFormedEndpoint(server) ==
  /\ server.port.t = "number"
  /\ server.port.s = <<>>
  /\ server.port.n \in 1..65535
  /\ server.host.t = "string"
  /\ server.host.s # <<>>

\* C37: every descriptor getServer yields for a configured server has an
\* integer port in 1..65535 and a non-empty host, and sendCommand starts no
\* connection attempt to another port
C37_EndpointsWellFormed ==
  /\ ( /\ probe.fn = "getServer"
       /\ ~probe.threw
       /\ HasOwn(probe.config.servers, ToStr(probe.server.name)) )
     => WellFormedEndpoint(probe.server)
  /\ \A c \in Calls :
       ( /\ Count(call[c].log, "connect") > 0
         /\ HasOwn(TheConfig.servers, ToStr(call[c].server.name)) )
       => WellFormedEndpoint(call[c].server)

\* the number of arguments each of these tools puts after its verb
ArgumentCount(tool) ==
  CASE tool \in {"class_info", "fullsource", "hierarchy", "senders", "implementors"} -> 1
    [] tool \in {"methods", "source", "messages"} -> 2
    [] tool = "undo_edit" -> 3

C39_PingNamesConnectedServer ==
  \A c \in Calls :
    ( /\ inv[c].tool = "ping"
      /\ inv[c].st \in {"returned", "threw"}
      /\ call[c].pc = "fulfilled"
      /\ call[c].value.t = "object"
      /\ call[c].value.status = "ok" )
    => /\ inv[c].st = "returned"
       /\ inv[c].text = <<"Connected to CliBridge '">> \o ToStr(call[c].server.name)
                         \o <<"' at ">> \o ToStr(call[c].server.host) \o <<":">>
                         \o ToStr(call[c].server.port)

\* C40: every call that resolved a descriptor has created a socket and armed
\* its timeout with 30000 ms as the very next socket operation, exactly once
\* and before the connection attempt, also when that attempt throws
C40_TimeoutArmedBeforeConnect ==
  \A c \in DOMAIN call :
    LET log == call[c].log
    IN  /\ (call[c].pc # "idle" /\ call[c].server # NoServer) => call[c].sock # "none"
        /\ call[c].sock # "none" =>
              /\ Len(log) >= 2
              /\ log[1].op = "new Socket"
              /\ log[2] = [op |-> "setTimeout", arg |-> <<"30000">>]
              /\ \A i \in DOMAIN log : log[i].op = "setTimeout" => i = 2
              /\ \A i \in DOMAIN log : log[i].op = "connect" => i > 2

C40_Witness ==
  \E c \in DOMAIN call :
    /\ call[c].sock = "connecting"
    /\ call[c].idle = TimeoutTicks
    /\ \E i \in DOMAIN call[c].log : call[c].log[i].op = "connect"

====
